---- MODULE Spec2Model ----
(***************************************************************************)
(* A model of the product designer: the stage (view) manager, the canvas   *)
(* manager, the history manager and the order part of the product loader.  *)
(* The canvas is the list of fabric objects in z-order; image loads,       *)
(* timers and JSON restorations are completions in flight.                 *)
(***************************************************************************)
EXTENDS Integers, Sequences, FiniteSets, Bags, TLC

(***************************************************************************)
(* Bounds of the model.                                                    *)
(***************************************************************************)
MaxHistory == 3        \* stands for HistoryManager.maxHistory
MaxOps == 3            \* operations of the user on views, colors and decorations
MaxCalls == 4          \* operations of the user in the behaviours that need four of them
MaxEdits == 5          \* operations of the user on decorations and their history
MaxColorSwitches == 1  \* color switches while the user fills in the order
MaxQty == 3            \* largest quantity of one (color, size) entry
MaxOrder == 3          \* largest order while its services and views are priced
MaxDecorations == 2    \* decorations on the canvas while it is exported
MaxExports == 2        \* exports that are requested
MaxInches == 3         \* largest width and height of a print area, in inches
MaxDesignedViews == 3  \* longest list of designed view ids that is priced
MaxCartItems == 1      \* largest order while several views are designed

(***************************************************************************)
(* The loaded product (ProductLoader.currentProduct).                      *)
(***************************************************************************)
Views == <<"front", "back", "sleeve">>
Colors == <<"red", "blue">>
Sizes == <<"M", "L">>
ViewIds == {Views[i] : i \in DOMAIN Views}
ColorIds == {Colors[i] : i \in DOMAIN Colors}
SizeIds == {Sizes[i] : i \in DOMAIN Sizes}
\* an id that no view and no color of the product has
UnknownId == "unknown"
NoImage == "none"
None == "none"
Contents == {"text", "image"}

\* color.viewImages[view.id]: every color of the product has an image per view
ViewImages(c, v) ==
    CASE c = "red" /\ v = "front" -> "front_red"
      [] c = "red" /\ v = "back" -> "back_red"
      [] c = "blue" /\ v = "front" -> "front_blue"
      [] c = "blue" /\ v = "back" -> "back_blue"
      [] c = "red" /\ v = "sleeve" -> "sleeve_red"
      [] c = "blue" /\ v = "sleeve" -> "sleeve_blue"
      [] OTHER -> NoImage

\* the assets of the product and the natural sizes of their images
Assets == {ViewImages(c, v) : c \in ColorIds, v \in ViewIds}
ImageSizes == {[width |-> 600, height |-> 600], [width |-> 300, height |-> 600],
               [width |-> 600, height |-> 300]}

\* the print area of a view as the admin stores it: the box in percent of the
\* product image, the offset of its centre in percent, the print size in inches
DefaultPrintArea ==
    [widthPercent |-> 40, heightPercent |-> 50, leftPercent |-> 0, topPercent |-> 0,
     printWidthInches |-> 8, printHeightInches |-> 10]
PrintAreas ==
    [widthPercent : {40, 50, 100}, heightPercent : {40, 50, 100},
     leftPercent : {-10, 0, 10}, topPercent : {-10, 0, 10},
     printWidthInches : 1..MaxInches, printHeightInches : 1..MaxInches]

VARIABLES
    \* ProductLoader
    currentViewIndex, currentColorIndex, colorSizeQuantities, selectedVAS, price, upcharge,
    vas,
    \* Designer (order panel, cart)
    summaryBase, summary, orderVasActive, cart,
    \* StageManager
    stages, currentStage, timers,
    \* CanvasManager: the objects of the fabric canvas, then the fields
    productElements, designObjects,
    productImage, printAreaRect, printAreaClipPath, currentView, pending,
    printAreaBounds, scaledProduct,
    \* the calls of exportForPrint, in the order they were made
    exports,
    \* the object copy() has put aside
    clipboard,
    \* PrintAreaEditor: the rectangle of the print area on the canvas of the editor
    editorRect,
    \* localStorage: the design saveDesign has stored
    savedDesign,
    \* the natural size of the image of every asset
    imageSize,
    \* HistoryManager
    history, historyIndex, isRestoring, initSavePending,
    \* bookkeeping of the behaviour (not program state)
    trace, log

loaderVars == <<currentViewIndex, currentColorIndex, colorSizeQuantities, selectedVAS, price,
                upcharge, vas>>
orderVars == <<summaryBase, summary, orderVasActive, cart>>
stageVars == <<stages, currentStage, timers>>
geometryVars == <<printAreaBounds, scaledProduct, imageSize>>
fieldVars == <<productImage, printAreaRect, printAreaClipPath, currentView, geometryVars,
               exports, clipboard, editorRect, savedDesign>>
canvasVars == <<productElements, designObjects, fieldVars, pending>>
historyVars == <<history, historyIndex, isRestoring, initSavePending>>
vars == <<loaderVars, orderVars, stageVars, canvasVars, historyVars, trace, log>>

(***************************************************************************)
(* Sequences.                                                              *)
(***************************************************************************)
Range(s) == {s[i] : i \in DOMAIN s}
RemoveAt(s, i) == SubSeq(s, 1, i - 1) \o SubSeq(s, i + 1, Len(s))
IndexOf(s, x) == IF \E i \in DOMAIN s : s[i] = x
                 THEN CHOOSE i \in DOMAIN s : s[i] = x /\ \A j \in 1..(i - 1) : s[j] # x
                 ELSE 0
Min(a, b) == IF a < b THEN a ELSE b
Abs(x) == IF x < 0 THEN -x ELSE x
EmptyMap == [x \in {} |-> 0]
Put(f, k, val) == [x \in DOMAIN f \cup {k} |-> IF x = k THEN val ELSE f[x]]
Del(f, k) == [x \in DOMAIN f \ {k} |-> f[x]]

\* the numbers of the geometry are exact fractions n/d with d > 0
RECURSIVE Gcd(_, _)
Gcd(a, b) == IF b = 0 THEN a ELSE Gcd(b, a % b)
Frac(n, d) ==
    LET g == Gcd(Abs(n), Abs(d))
        sgn == IF d < 0 THEN -1 ELSE 1
    IN [n |-> sgn * (n \div g), d |-> sgn * (d \div g)]
Num(i) == Frac(i, 1)
Times(a, b) == Frac(a.n * b.n, a.d * b.d)
Over(a, b) == Frac(a.n * b.d, a.d * b.n)
Plus(a, b) == Frac(a.n * b.d + b.n * a.d, a.d * b.d)
Minus(a, b) == Frac(a.n * b.d - b.n * a.d, a.d * b.d)
Less(a, b) == a.n * b.d < b.n * a.d
MinOf(a, b) == IF Less(b, a) THEN b ELSE a

RECURSIVE SumOver(_, _)
SumOver(S, f) == IF S = {} THEN 0
                 ELSE LET x == CHOOSE y \in S : TRUE IN f[x] + SumOver(S \ {x}, f)

(***************************************************************************)
(* Fabric objects.  The canvas is its list of objects in z-order.  No      *)
(* operation on a product element (product image, print-area rectangle     *)
(* and label) depends on where the design objects are, and conversely, so  *)
(* the list is kept as its two sub-lists, productElements and              *)
(* designObjects, each in z-order.                                         *)
(* t is the role of the object, c its content, origin the stage that was   *)
(* current when a decoration was first added.  ref is the identity of a    *)
(* live object while a field or a closure refers to it, and 0 otherwise:   *)
(* the product image this.productImage refers to has ref 1, a design       *)
(* object captured by a pending setBackgroundImage has a ref of its own.   *)
(* clip is the clipPath of the object: the view whose print area the       *)
(* rectangle was made for, or None.  src tells whether the object carries  *)
(* _originalSrc, _originalWidth and _originalHeight.  angle is the angle of *)
(* the object in degrees, left its position and scaleX its scale, each as  *)
(* the step of a drag it was left at.                                      *)
(***************************************************************************)
ProductImageObj(asset) ==
    [t |-> "product", c |-> asset, origin |-> "-", ref |-> 1, clip |-> None, src |-> FALSE,
     angle |-> 0, left |-> 0, scaleX |-> 0]
PrintAreaRectObj(v) ==
    [t |-> "rect", c |-> v, origin |-> "-", ref |-> 0, clip |-> None, src |-> FALSE,
     angle |-> 0, left |-> 0, scaleX |-> 0]
PrintAreaLabelObj(v) ==
    [t |-> "label", c |-> v, origin |-> "-", ref |-> 0, clip |-> None, src |-> FALSE,
     angle |-> 0, left |-> 0, scaleX |-> 0]
\* this.clipboard = null
NoObject ==
    [t |-> "none", c |-> "-", origin |-> "-", ref |-> 0, clip |-> None, src |-> FALSE,
     angle |-> 0, left |-> 0, scaleX |-> 0]
\* a new text or shape, and a new image with the source it was loaded from
DesignObj(c, v) ==
    [t |-> "deco", c |-> c, origin |-> v, ref |-> 0, clip |-> None, src |-> c = "image",
     angle |-> 0, left |-> 0, scaleX |-> 0]

IsRaster(o) == o.t = "deco" /\ o.c = "image"

\* fabric.Canvas.remove(obj), obj being the object a reference refers to
RemoveObj(cv, o) == SelectSeq(cv, LAMBDA x : x # o)
RemoveRef(cv, r) == SelectSeq(cv, LAMBDA x : x.ref # r)

\* fabric.Canvas.bringToFront(obj): the object is taken out of the list and pushed
BringToFront(cv, o) == Append(RemoveObj(cv, o), o)

\* the reference this.productImage is given up or moves to another image
Unref(cv) == [i \in 1..Len(cv) |-> [cv[i] EXCEPT !.ref = 0]]

\* fabric.Object.toJSON with the listed properties, _originalSrc among them; the
\* clipPath is serialized with the object; the live identity is not kept
ToJSON(o) == [o EXCEPT !.ref = 0]
Serialize(objs) == [i \in 1..Len(objs) |-> ToJSON(objs[i])]

\* CanvasManager.getDesignObjects
GetDesignObjects == designObjects

\* CanvasManager.toJSON: objects marked excludeFromExport are left out
CanvasToJSON(objs) == Serialize(objs)

\* fabric.util.enlivenObjects: new live objects from serialized ones, in order
Enliven(objs) == Serialize(objs)

(***************************************************************************)
(* Completions in flight: image loads started by loadProductView ("view")  *)
(* and setBackgroundImage ("color"), objects being enlivened by            *)
(* loadStageDesign ("enliven") and by loadFromJSON ("history").  They      *)
(* complete in any order, so they are kept as a bag.                       *)
(***************************************************************************)
ViewLoad(v, asset) == [k |-> "view", v |-> v, asset |-> asset, objs |-> <<>>]
ColorLoad(asset, objs) == [k |-> "color", v |-> "-", asset |-> asset, objs |-> objs]
EnlivenLoad(o) == [k |-> "enliven", v |-> "-", asset |-> "-", objs |-> <<o>>]
HistoryLoad(snapshot) == [k |-> "history", v |-> "-", asset |-> "-", objs |-> snapshot]
\* the clone of an image, on its way to the canvas or to the clipboard
CloneLoad(o, to) == [k |-> "clone", v |-> to, asset |-> "-", objs |-> <<o>>]

Start(pend, load) == pend (+) SetToBag({load})
Finish(pend, load) == pend (-) SetToBag({load})
Loads(pend, k) == {p \in BagToSet(pend) : p.k = k}
NoHistoryLoad(pend) == Loads(pend, "history") = {}
HistoryLoads(pend) ==
    LET H == Loads(pend, "history") IN SumOver(H, [p \in H |-> CopiesIn(p, pend)])

\* the refs held by live design objects and by closures of loads in flight
UsedRefs(objs, pend) ==
    {objs[i].ref : i \in DOMAIN objs}
        \cup UNION {{p.objs[j].ref : j \in DOMAIN p.objs} : p \in Loads(pend, "color")}
FreshRef(used) == CHOOSE n \in 1..(Cardinality(used) + 1) :
                      n \notin used /\ \A m \in 1..(n - 1) : m \in used

\* const designObjects = this.getDesignObjects(): the closure refers to the objects
RECURSIVE Capture(_, _)
Capture(objs, used) ==
    IF objs = <<>> THEN <<>>
    ELSE IF objs[1].ref # 0 THEN <<objs[1]>> \o Capture(Tail(objs), used)
    ELSE LET r == FreshRef(used)
         IN <<[objs[1] EXCEPT !.ref = r]>> \o Capture(Tail(objs), used \cup {r})

\* a closure is done: the objects no closure refers to any more lose their ref
Release(objs, pend) ==
    LET held == UsedRefs(<<>>, pend)
    IN [i \in 1..Len(objs) |-> IF objs[i].ref \in held THEN objs[i] ELSE ToJSON(objs[i])]


(***************************************************************************)
(* HistoryManager.                                                         *)
(***************************************************************************)
\* a save that never drops the oldest snapshot: the bound of C7 fails for it
HistorySaveUnbounded(h, idx, restoring, state) ==
    IF restoring THEN [history |-> h, historyIndex |-> idx, appended |-> FALSE]
    ELSE LET h1 == IF idx < Len(h) - 1 THEN SubSeq(h, 1, idx + 1) ELSE h
         IN IF Len(h1) > 0 /\ h1[idx + 1] = state
            THEN [history |-> h1, historyIndex |-> idx, appended |-> FALSE]
            ELSE [history |-> Append(h1, state), historyIndex |-> idx + 1, appended |-> TRUE]

\* a save that moves the pointer on also when it drops the oldest snapshot: the
\* range of C35 fails for it
HistorySaveAdvancing(h, idx, restoring, state) ==
    IF restoring THEN [history |-> h, historyIndex |-> idx, appended |-> FALSE]
    ELSE LET h1 == IF idx < Len(h) - 1 THEN SubSeq(h, 1, idx + 1) ELSE h
         IN IF Len(h1) > 0 /\ h1[idx + 1] = state
            THEN [history |-> h1, historyIndex |-> idx, appended |-> FALSE]
            ELSE LET h2 == Append(h1, state)
                 IN IF Len(h2) > MaxHistory
                    THEN [history |-> Tail(h2), historyIndex |-> idx + 1, appended |-> TRUE]
                    ELSE [history |-> h2, historyIndex |-> idx + 1, appended |-> TRUE]

\* HistoryManager.save: the history and the pointer it leaves
HistorySave(h, idx, restoring, state) ==
    IF restoring THEN [history |-> h, historyIndex |-> idx, appended |-> FALSE]
    ELSE LET h1 == IF idx < Len(h) - 1 THEN SubSeq(h, 1, idx + 1) ELSE h
         IN IF Len(h1) > 0 /\ h1[idx + 1] = state
            THEN [history |-> h1, historyIndex |-> idx, appended |-> FALSE]
            ELSE LET h2 == Append(h1, state)
                 IN IF Len(h2) > MaxHistory
                    THEN [history |-> Tail(h2), historyIndex |-> idx, appended |-> TRUE]
                    ELSE [history |-> h2, historyIndex |-> idx + 1, appended |-> TRUE]

CanUndo == historyIndex > 0
CanRedo == historyIndex < Len(history) - 1

\* the snapshot at the pointer
Current == IF historyIndex >= 0 THEN history[historyIndex + 1] ELSE <<>>

\* the stage that was current when each snapshot of the history was saved: the
\* list that goes with the history a save leaves
SavedIn(w, idx, restoring, appended, stage) ==
    IF restoring THEN w
    ELSE LET w1 == IF idx < Len(w) - 1 THEN SubSeq(w, 1, idx + 1) ELSE w
         IN IF ~appended THEN w1
            ELSE IF Len(w1) + 1 > MaxHistory THEN Tail(Append(w1, stage))
            ELSE Append(w1, stage)

\* the 'history:save' listener; log keeps the first snapshot saved, the number
\* of snapshots saved and whether a later one was equal to the first, and the
\* stage every snapshot was saved in (and, of the loads of product images, the
\* views whose image failed to load and whether an error was left uncaught)
EmitHistorySave(objs) ==
    LET state == CanvasToJSON(objs)
        r == HistorySave(history, historyIndex, isRestoring, state)
        views == SavedIn(log.views, historyIndex, isRestoring, r.appended, currentStage)
    IN /\ history' = r.history
       /\ historyIndex' = r.historyIndex
       /\ log' = IF ~r.appended THEN [log EXCEPT !.views = views]
                 ELSE IF log.n = 0 THEN [log EXCEPT !.first = state, !.n = 1, !.views = views]
                 ELSE [log EXCEPT !.n = Min(@ + 1, MaxHistory + 1),
                                  !.repeated = @ \/ state = log.first,
                                  !.views = views]

\* nothing is in flight: no load, no timer
Settled == pending = EmptyBag /\ timers = <<>> /\ ~initSavePending

\* trace is the list of the operations of the user so far, each with the stage it
\* was called in, whether it was called with nothing in flight, the snapshot at
\* the pointer when it was called (s0), the scene it left (s1) and whether it
\* made the history take a snapshot
Record(op, arg, after, emits) ==
    trace' = Append(trace,
                    [op |-> op, arg |-> arg, stage |-> currentStage, settled |-> Settled,
                     s0 |-> Current, s1 |-> Serialize(after),
                     saved |-> emits /\ HistorySave(history, historyIndex, isRestoring,
                                                    CanvasToJSON(after)).appended])
nOps == Len(trace)

\* the timer of HistoryManager.init: the initial state is saved
InitialSave ==
    /\ initSavePending
    /\ initSavePending' = FALSE
    /\ EmitHistorySave(designObjects)
    /\ UNCHANGED <<loaderVars, orderVars, stageVars, canvasVars, isRestoring, trace>>

HasRaster(snapshot) == \E i \in DOMAIN snapshot : IsRaster(snapshot[i])

\* a loadFromJSON that adds the objects of the snapshot to the canvas without
\* clearing it: the round trip of C6 fails for it
LoadFromJSONKeeping(snapshot) ==
    /\ productElements' = productElements
    /\ designObjects' = designObjects \o Enliven(snapshot)

\* CanvasManager.loadFromJSON, when every object of the snapshot is enlivened: the
\* canvas is cleared and holds the objects of the snapshot
LoadFromJSON(snapshot) ==
    /\ productElements' = <<>>
    /\ designObjects' = Enliven(snapshot)

\* HistoryManager.undo / redo: the pointer moves by d and the snapshot is restored
Restore(d, op) ==
    LET idx == historyIndex + d
        snapshot == history[idx + 1]
        sync == ~HasRaster(snapshot)
    IN /\ historyIndex' = idx
       /\ Record(op, "-", IF sync THEN snapshot ELSE designObjects, FALSE)
       /\ IF sync
          THEN /\ LoadFromJSON(snapshot)
               /\ isRestoring' = FALSE
               /\ pending' = pending
          ELSE /\ UNCHANGED <<productElements, designObjects>>
               /\ isRestoring' = TRUE
               /\ pending' = Start(pending, HistoryLoad(snapshot))
       /\ UNCHANGED <<loaderVars, orderVars, stageVars, fieldVars, history,
                      initSavePending, log>>

Undo == CanUndo /\ Restore(-1, "undo")

Redo == CanRedo /\ Restore(1, "redo")

\* HistoryManager.undo when canUndo() is false, redo when canRedo() is false:
\* the call returns
UndoRefused ==
    /\ ~CanUndo
    /\ Record("undo", "refused", designObjects, FALSE)
    /\ UNCHANGED <<loaderVars, orderVars, stageVars, canvasVars, historyVars, log>>

RedoRefused ==
    /\ ~CanRedo
    /\ Record("redo", "refused", designObjects, FALSE)
    /\ UNCHANGED <<loaderVars, orderVars, stageVars, canvasVars, historyVars, log>>

\* HistoryManager.clear: the history is emptied and the state is saved
Clear ==
    /\ LET r == HistorySave(<<>>, -1, isRestoring, CanvasToJSON(designObjects))
       IN /\ history' = r.history
          /\ historyIndex' = r.historyIndex
          /\ log' = [log EXCEPT !.views = IF r.appended THEN <<currentStage>> ELSE <<>>]
    /\ Record("clear", "-", designObjects, TRUE)
    /\ UNCHANGED <<loaderVars, orderVars, stageVars, canvasVars, isRestoring,
                   initSavePending>>

\* the completion of canvas.loadFromJSON(state) and the .then of undo / redo
HistoryLoadDone ==
    \E p \in Loads(pending, "history") :
        /\ LoadFromJSON(p.objs)
        /\ pending' = Finish(pending, p)
        /\ isRestoring' = FALSE
        /\ UNCHANGED <<loaderVars, orderVars, stageVars, fieldVars, history, historyIndex,
                       initSavePending, trace, log>>

(***************************************************************************)
(* PrintAreaEditor: the canvas on which the admin places the print area.   *)
(* Lengths are pixels of that canvas, as exact fractions.                  *)
(***************************************************************************)
\* options.maxWidth, options.maxHeight
EditorMaxWidth == 500
EditorMaxHeight == 400
\* the natural size of the product image the admin has uploaded
EditorImage == [w |-> 900, h |-> 500]

\* loadProductImage: scale = min(maxWidth / width, maxHeight / height) * 0.9, the
\* image is centred on the canvas
EditorImageScale ==
    Times(MinOf(Over(Num(EditorMaxWidth), Num(EditorImage.w)),
                Over(Num(EditorMaxHeight), Num(EditorImage.h))),
          Frac(9, 10))
ScaledProductWidth == Times(Num(EditorImage.w), EditorImageScale)
ScaledProductHeight == Times(Num(EditorImage.h), EditorImageScale)
EditorImageLeft == Over(Num(EditorMaxWidth), Num(2))
EditorImageTop == Over(Num(EditorMaxHeight), Num(2))

\* this.printAreaRect = null, with printWidthInches = 8 and printHeightInches = 10
NoRect ==
    [left |-> Num(0), top |-> Num(0), width |-> Num(0), height |-> Num(0),
     scaleX |-> 0, scaleY |-> 0, printWidthInches |-> 8, printHeightInches |-> 10]
HasRect(e) == e.scaleX # 0

\* addPrintAreaRect without existing data: the rectangle of the aspect ratio of
\* the inches that fits in half the width and 60% of the height of the image,
\* on the centre of the canvas
AddPrintAreaRect(e) ==
    LET aspectRatio == Frac(e.printWidthInches, e.printHeightInches)
        maxWidth == Times(ScaledProductWidth, Frac(5, 10))
        maxHeight == Times(ScaledProductHeight, Frac(6, 10))
        fitsHeight == Less(aspectRatio, Over(maxWidth, maxHeight))
    IN [e EXCEPT !.width = IF fitsHeight THEN Times(maxHeight, aspectRatio) ELSE maxWidth,
                 !.height = IF fitsHeight THEN maxHeight ELSE Over(maxWidth, aspectRatio),
                 !.left = Over(Num(EditorMaxWidth), Num(2)),
                 !.top = Over(Num(EditorMaxHeight), Num(2)),
                 !.scaleX = 1, !.scaleY = 1]

\* the scales a drag of a corner gives the rectangle, the points of the canvas a
\* drag moves its centre to, and the inches the admin types: inches for which
\* the square roots of updateRectAspectRatio are fractions
Scales == 1..3
EditorXs == {10 * k : k \in 0..(EditorMaxWidth \div 10)}
EditorYs == {10 * k : k \in 0..(EditorMaxHeight \div 10)}
WidthInches == {2, 8, 18}
HeightInches == {10, 40}

\* constrainToProductImage: the position of the centre of the rectangle
ConstrainToProductImage(rect) ==
    LET imgLeft == Minus(EditorImageLeft, Over(ScaledProductWidth, Num(2)))
        imgTop == Minus(EditorImageTop, Over(ScaledProductHeight, Num(2)))
        imgRight == Plus(imgLeft, ScaledProductWidth)
        imgBottom == Plus(imgTop, ScaledProductHeight)
        rectWidth == Times(rect.width, Num(rect.scaleX))
        rectHeight == Times(rect.height, Num(rect.scaleY))
        rectLeft == Minus(rect.left, Over(rectWidth, Num(2)))
        rectTop == Minus(rect.top, Over(rectHeight, Num(2)))
        left1 == IF Less(rectLeft, imgLeft) THEN Plus(imgLeft, Over(rectWidth, Num(2)))
                 ELSE rect.left
        top1 == IF Less(rectTop, imgTop) THEN Plus(imgTop, Over(rectHeight, Num(2)))
                ELSE rect.top
        newLeft == IF Less(imgRight, Plus(rectLeft, rectWidth))
                   THEN Minus(imgRight, Over(rectWidth, Num(2)))
                   ELSE left1
        newTop == IF Less(imgBottom, Plus(rectTop, rectHeight))
                  THEN Minus(imgBottom, Over(rectHeight, Num(2)))
                  ELSE top1
    IN [rect EXCEPT !.left = newLeft, !.top = newTop]

\* Math.sqrt of a fraction whose numerator and denominator are squares
RECURSIVE Root(_, _, _)
Root(n, lo, hi) ==
    IF lo = hi THEN lo
    ELSE LET mid == (lo + hi + 1) \div 2
         IN IF mid * mid <= n THEN Root(n, mid, hi) ELSE Root(n, lo, mid - 1)
Sqrt(f) == Frac(Root(f.n, 0, Min(f.n, 46340)), Root(f.d, 0, Min(f.d, 46340)))

\* an update that fits the rectangle of the new aspect ratio in 90% of the image
\* without keeping the area: the rule of C31 fails for it
UpdateRectToLargest(e) ==
    LET aspectRatio == Frac(e.printWidthInches, e.printHeightInches)
        maxWidth == Times(ScaledProductWidth, Frac(9, 10))
        maxHeight == Times(ScaledProductHeight, Frac(9, 10))
        fitsHeight == Less(aspectRatio, Over(maxWidth, maxHeight))
    IN ConstrainToProductImage(
           [e EXCEPT !.width = IF fitsHeight THEN Times(maxHeight, aspectRatio) ELSE maxWidth,
                     !.height = IF fitsHeight THEN maxHeight ELSE Over(maxWidth, aspectRatio),
                     !.scaleX = 1, !.scaleY = 1])

\* updateRectAspectRatio, the inches being those of e
UpdateRectAspectRatio(e) ==
    LET aspectRatio == Frac(e.printWidthInches, e.printHeightInches)
        currentWidth == Times(e.width, Num(e.scaleX))
        currentHeight == Times(e.height, Num(e.scaleY))
        currentArea == Times(currentWidth, currentHeight)
        width0 == Sqrt(Times(currentArea, aspectRatio))
        height0 == Sqrt(Over(currentArea, aspectRatio))
        maxWidth == Times(ScaledProductWidth, Frac(9, 10))
        maxHeight == Times(ScaledProductHeight, Frac(9, 10))
        width1 == IF Less(maxWidth, width0) THEN maxWidth ELSE width0
        height1 == IF Less(maxWidth, width0) THEN Over(width1, aspectRatio) ELSE height0
        newHeight == IF Less(maxHeight, height1) THEN maxHeight ELSE height1
        newWidth == IF Less(maxHeight, height1) THEN Times(newHeight, aspectRatio) ELSE width1
    IN ConstrainToProductImage([e EXCEPT !.width = newWidth, !.height = newHeight,
                                         !.scaleX = 1, !.scaleY = 1])

\* loadProductImage, when the image has loaded: addPrintAreaRect puts the
\* rectangle on the centre of the canvas
EditorLoadProductImage ==
    /\ editorRect' = AddPrintAreaRect(editorRect)
    /\ UNCHANGED <<loaderVars, orderVars, stageVars, productElements, designObjects,
                   productImage, printAreaRect, printAreaClipPath, currentView,
                   geometryVars, exports, clipboard, savedDesign, pending, historyVars, trace, log>>

\* 'change' and 'input' of the input of the width in inches: the inches are
\* kept, and updateRectAspectRatio returns when there is no rectangle
WidthInputChanged ==
    /\ \E w \in WidthInches \ {editorRect.printWidthInches} :
           LET e == [editorRect EXCEPT !.printWidthInches = w]
           IN editorRect' = IF HasRect(e) THEN UpdateRectAspectRatio(e) ELSE e
    /\ UNCHANGED <<loaderVars, orderVars, stageVars, productElements, designObjects,
                   productImage, printAreaRect, printAreaClipPath, currentView,
                   geometryVars, exports, clipboard, savedDesign, pending, historyVars, trace, log>>

\* 'change' and 'input' of the input of the height in inches
HeightInputChanged ==
    /\ \E h \in HeightInches \ {editorRect.printHeightInches} :
           LET e == [editorRect EXCEPT !.printHeightInches = h]
           IN editorRect' = IF HasRect(e) THEN UpdateRectAspectRatio(e) ELSE e
    /\ UNCHANGED <<loaderVars, orderVars, stageVars, productElements, designObjects,
                   productImage, printAreaRect, printAreaClipPath, currentView,
                   geometryVars, exports, clipboard, savedDesign, pending, historyVars, trace, log>>

\* 'moving' and 'modified' of the rectangle, the drag having put its centre on
\* (x, y): onPrintAreaChange
OnPrintAreaChange ==
    /\ HasRect(editorRect)
    /\ \E x \in EditorXs, y \in EditorYs :
           editorRect' = ConstrainToProductImage([editorRect EXCEPT !.left = Num(x),
                                                                    !.top = Num(y)])
    /\ UNCHANGED <<loaderVars, orderVars, stageVars, productElements, designObjects,
                   productImage, printAreaRect, printAreaClipPath, currentView,
                   geometryVars, exports, clipboard, savedDesign, pending, historyVars, trace, log>>

\* 'scaling' of the rectangle e, the drag of the corner (cx, cy) having given it
\* the scales scaleX and scaleY with the opposite corner where it was:
\* onPrintAreaScaling takes the larger of the two scales for both
Scaling(e, scaleX, scaleY, cx, cy) ==
    LET halfWidth(s) == Over(Times(e.width, Num(s)), Num(2))
        halfHeight(s) == Over(Times(e.height, Num(s)), Num(2))
        anchorX == Minus(e.left, Times(Num(cx), halfWidth(e.scaleX)))
        anchorY == Minus(e.top, Times(Num(cy), halfHeight(e.scaleY)))
        scale == IF scaleX > scaleY THEN scaleX ELSE scaleY
        dragged == [e EXCEPT !.left = Plus(anchorX, Times(Num(cx), halfWidth(scaleX))),
                             !.top = Plus(anchorY, Times(Num(cy), halfHeight(scaleY))),
                             !.scaleX = scale, !.scaleY = scale]
    IN ConstrainToProductImage(dragged)

OnPrintAreaScaling ==
    /\ HasRect(editorRect)
    /\ \E scaleX \in Scales, scaleY \in Scales, cx \in {-1, 1}, cy \in {-1, 1} :
           editorRect' = Scaling(editorRect, scaleX, scaleY, cx, cy)
    /\ UNCHANGED <<loaderVars, orderVars, stageVars, productElements, designObjects,
                   productImage, printAreaRect, printAreaClipPath, currentView,
                   geometryVars, exports, clipboard, savedDesign, pending, historyVars, trace, log>>

(***************************************************************************)
(* CanvasManager: the user's edits.                                        *)
(***************************************************************************)
\* CanvasManager.applyClipPathToObject: nothing is done without a clip path
ApplyClipPathToObject(o) ==
    IF printAreaClipPath # None THEN [o EXCEPT !.clip = printAreaClipPath] ELSE o
ApplyClipPath(objs) == [i \in 1..Len(objs) |-> ApplyClipPathToObject(objs[i])]

\* CanvasManager.addText / addShape / addImage (the callback that adds the image)
AddObject ==
    \E c \in Contents :
        /\ designObjects' = Append(designObjects,
                                   ApplyClipPathToObject(DesignObj(c, currentStage)))
        /\ EmitHistorySave(designObjects')
        /\ Record("add", c, designObjects', TRUE)
        /\ UNCHANGED <<loaderVars, orderVars, stageVars, productElements, fieldVars,
                       pending, isRestoring, initSavePending>>

\* CanvasManager.deleteSelected, the active object being the i-th design object
DeleteSelected ==
    \E i \in DOMAIN designObjects :
        /\ designObjects' = RemoveAt(designObjects, i)
        /\ EmitHistorySave(designObjects')
        /\ Record("delete", "-", designObjects', TRUE)
        /\ UNCHANGED <<loaderVars, orderVars, stageVars, productElements, fieldVars,
                       pending, isRestoring, initSavePending>>

\* the mouseUpHandler of the delete control of the i-th design object: the
\* object is removed and 'object:deleted' is emitted, which nothing listens to
DeleteControlMouseUp ==
    \E i \in DOMAIN designObjects :
        /\ designObjects' = RemoveAt(designObjects, i)
        /\ Record("deleteControl", "-", designObjects', FALSE)
        /\ UNCHANGED <<loaderVars, orderVars, stageVars, productElements, fieldVars,
                       pending, historyVars, log>>

\* LayerManager.handleLayerAction('delete', index), the object at the index
\* being the i-th design object
HandleLayerDelete ==
    \E i \in DOMAIN designObjects :
        /\ designObjects' = RemoveAt(designObjects, i)
        /\ EmitHistorySave(designObjects')
        /\ Record("layerDelete", "-", designObjects', TRUE)
        /\ UNCHANGED <<loaderVars, orderVars, stageVars, productElements, fieldVars,
                       pending, isRestoring, initSavePending>>

\* CanvasManager.bringToFront, the active object being the i-th design object
BringToFrontSelected ==
    \E i \in DOMAIN designObjects :
        /\ designObjects' = Append(RemoveAt(designObjects, i), designObjects[i])
        /\ EmitHistorySave(designObjects')
        /\ Record("bringToFront", "-", designObjects', TRUE)
        /\ UNCHANGED <<loaderVars, orderVars, stageVars, productElements, fieldVars,
                       pending, isRestoring, initSavePending>>

\* the angles of the snapping and the angles a drag of the rotation control
\* gives an object, in degrees: every snap angle and the angles next to the
\* ends of its band
SnapAngles == <<0, 45, 90, 135, 180, 225, 270, 315, 360>>
Angles == {a \in 0..360 : \E k \in DOMAIN SnapAngles :
                              SnapAngles[k] - a \in {-5, -4, 0, 4, 5}}

\* a snapping to the right angles only: the snapping of C27 fails for it
SnapRight(angle) ==
    IF \E k \in DOMAIN SnapAngles : SnapAngles[k] % 90 = 0 /\ Abs(angle - SnapAngles[k]) < 5
    THEN CHOOSE m \in Range(SnapAngles) : m % 90 = 0 /\ Abs(angle - m) < 5
    ELSE angle

\* the listener of object:rotating: snapAngles.forEach, from the k-th angle on
RECURSIVE SnapFrom(_, _)
SnapFrom(angle, k) ==
    IF k > Len(SnapAngles) THEN angle
    ELSE SnapFrom(IF Abs(angle - SnapAngles[k]) < 5 THEN SnapAngles[k] ELSE angle, k + 1)
Snap(angle) == SnapFrom(angle, 1)

\* the frames of a drag: the steps the drag may leave the object at
Steps == 0..1

\* object:rotating, the target being the i-th design object and the drag having
\* turned it to angle: the angle is snapped; the properties panel is told
ObjectRotating ==
    \E i \in DOMAIN designObjects, angle \in Angles :
        /\ designObjects' = [designObjects EXCEPT ![i].angle = Snap(angle)]
        /\ Record("rotating", [i |-> i, to |-> angle], designObjects', FALSE)
        /\ UNCHANGED <<loaderVars, orderVars, stageVars, productElements, fieldVars,
                       pending, historyVars, log>>

\* a frame of a move that makes the history take a snapshot: the rule of C28
\* fails for it
ObjectMovingSaving ==
    \E i \in DOMAIN designObjects, to \in Steps :
        /\ designObjects' = [designObjects EXCEPT ![i].left = to]
        /\ EmitHistorySave(designObjects')
        /\ Record("moving", [i |-> i, to |-> to], designObjects', TRUE)
        /\ UNCHANGED <<loaderVars, orderVars, stageVars, productElements, fieldVars,
                       pending, isRestoring, initSavePending>>

\* object:moving, the drag having moved the i-th design object: the properties
\* panel is told
ObjectMoving ==
    \E i \in DOMAIN designObjects, to \in Steps :
        /\ designObjects' = [designObjects EXCEPT ![i].left = to]
        /\ Record("moving", [i |-> i, to |-> to], designObjects', FALSE)
        /\ UNCHANGED <<loaderVars, orderVars, stageVars, productElements, fieldVars,
                       pending, historyVars, log>>

\* object:scaling, the drag having scaled the i-th design object: the properties
\* panel is told
ObjectScaling ==
    \E i \in DOMAIN designObjects, to \in Steps :
        /\ designObjects' = [designObjects EXCEPT ![i].scaleX = to]
        /\ Record("scaling", [i |-> i, to |-> to], designObjects', FALSE)
        /\ UNCHANGED <<loaderVars, orderVars, stageVars, productElements, fieldVars,
                       pending, historyVars, log>>

\* object:modified at the end of a drag: 'history:save' is emitted
ObjectModified ==
    /\ designObjects # <<>>
    /\ EmitHistorySave(designObjects)
    /\ Record("modified", "-", designObjects, TRUE)
    /\ UNCHANGED <<loaderVars, orderVars, stageVars, canvasVars, isRestoring,
                   initSavePending>>

\* fabric.Object.clone(callback) without propertiesToInclude: the object is
\* rebuilt from toObject(), which holds the properties of fabric, the clipPath
\* among them, and none of the custom ones
Clone(o) == [ToJSON(o) EXCEPT !.src = FALSE]

\* CanvasManager.duplicateSelected, the active object being the i-th design
\* object: the clone of an image is added when its image has loaded
DuplicateSelected ==
    \E i \in DOMAIN designObjects :
        LET cloned == Clone(designObjects[i])
        IN /\ IF IsRaster(cloned)
              THEN /\ pending' = Start(pending, CloneLoad(cloned, "canvas"))
                   /\ Record("duplicate", "-", designObjects, FALSE)
                   /\ UNCHANGED <<designObjects, history, historyIndex, log>>
              ELSE /\ designObjects' = Append(designObjects, cloned)
                   /\ EmitHistorySave(designObjects')
                   /\ Record("duplicate", "-", designObjects', TRUE)
                   /\ pending' = pending
           /\ UNCHANGED <<loaderVars, orderVars, stageVars, productElements, fieldVars,
                          isRestoring, initSavePending>>

\* CanvasManager.copy, the active object being the i-th design object
Copy ==
    \E i \in DOMAIN designObjects :
        LET cloned == Clone(designObjects[i])
        IN /\ Record("copy", "-", designObjects, FALSE)
           /\ IF IsRaster(cloned)
              THEN /\ pending' = Start(pending, CloneLoad(cloned, "clipboard"))
                   /\ clipboard' = clipboard
              ELSE /\ clipboard' = cloned
                   /\ pending' = pending
           /\ UNCHANGED <<loaderVars, orderVars, stageVars, productElements, designObjects,
                          productImage, printAreaRect, printAreaClipPath, currentView,
                          geometryVars, exports, editorRect, savedDesign, historyVars, log>>

\* CanvasManager.paste: the clone of the clipboard is added
Paste ==
    /\ clipboard # NoObject
    /\ LET cloned == Clone(clipboard)
       IN IF IsRaster(cloned)
          THEN /\ pending' = Start(pending, CloneLoad(cloned, "canvas"))
               /\ Record("paste", "-", designObjects, FALSE)
               /\ UNCHANGED <<designObjects, history, historyIndex, log>>
          ELSE /\ designObjects' = Append(designObjects, cloned)
               /\ EmitHistorySave(designObjects')
               /\ Record("paste", "-", designObjects', TRUE)
               /\ pending' = pending
    /\ UNCHANGED <<loaderVars, orderVars, stageVars, productElements, fieldVars,
                   isRestoring, initSavePending>>

\* the callback of clone for an image: the clone is added to the canvas and the
\* history is told, or the clone becomes the clipboard
CloneDone ==
    \E p \in Loads(pending, "clone") :
        /\ pending' = Finish(pending, p)
        /\ IF p.v = "canvas"
           THEN /\ designObjects' = designObjects \o p.objs
                /\ EmitHistorySave(designObjects')
                /\ clipboard' = clipboard
           ELSE /\ clipboard' = p.objs[1]
                /\ UNCHANGED <<designObjects, history, historyIndex, log>>
        /\ UNCHANGED <<loaderVars, orderVars, stageVars, productElements,
                       productImage, printAreaRect, printAreaClipPath, currentView,
                       geometryVars, exports, editorRect, savedDesign, isRestoring, initSavePending,
                       trace>>

(***************************************************************************)
(* CanvasManager: product image and print area.                            *)
(***************************************************************************)

\* printAreaBounds = null, and the scaled size of no product image
NoBounds ==
    [left |-> Num(0), top |-> Num(0), width |-> Num(0), height |-> Num(0),
     widthInches |-> 0, heightInches |-> 0]
NoSize == [width |-> Num(0), height |-> Num(0)]

\* CanvasManager.options.width and height
CanvasWidth == 600
CanvasHeight == 600

\* the product image as loadProductImage places it: scaled to fit the canvas at
\* 95%, centred
LoadProductImage(size) ==
    LET scale == Times(MinOf(Over(Num(CanvasWidth), Num(size.width)),
                             Over(Num(CanvasHeight), Num(size.height))),
                       Frac(95, 100))
    IN [left |-> Over(Num(CanvasWidth), Num(2)),
        top |-> Over(Num(CanvasHeight), Num(2)),
        scaledProductWidth |-> Times(Num(size.width), scale),
        scaledProductHeight |-> Times(Num(size.height), scale)]

\* a print area that fills its bounding box whatever the inches say: the
\* geometry of C14 fails for it
SetupPrintAreaStretched(printAreaData, img) ==
    LET maxWidth == Times(img.scaledProductWidth, Frac(printAreaData.widthPercent, 100))
        maxHeight == Times(img.scaledProductHeight, Frac(printAreaData.heightPercent, 100))
        offsetX == Times(img.scaledProductWidth, Frac(printAreaData.leftPercent, 100))
        offsetY == Times(img.scaledProductHeight, Frac(printAreaData.topPercent, 100))
    IN [left |-> Minus(Plus(img.left, offsetX), Over(maxWidth, Num(2))),
        top |-> Minus(Plus(img.top, offsetY), Over(maxHeight, Num(2))),
        width |-> maxWidth,
        height |-> maxHeight,
        widthInches |-> printAreaData.widthInches,
        heightInches |-> printAreaData.heightInches]

\* CanvasManager.setupPrintArea: printAreaBounds for the product image img
SetupPrintArea(printAreaData, img) ==
    LET widthInches == IF printAreaData.widthInches # 0 THEN printAreaData.widthInches ELSE 8
        heightInches == IF printAreaData.heightInches # 0
                        THEN printAreaData.heightInches ELSE 10
        aspectRatio == Frac(widthInches, heightInches)
        maxWidth == Times(img.scaledProductWidth, Frac(printAreaData.widthPercent, 100))
        maxHeight == Times(img.scaledProductHeight, Frac(printAreaData.heightPercent, 100))
        heightConstrained == Less(aspectRatio, Over(maxWidth, maxHeight))
        printWidth == IF heightConstrained THEN Times(maxHeight, aspectRatio) ELSE maxWidth
        printHeight == IF heightConstrained THEN maxHeight ELSE Over(maxWidth, aspectRatio)
        offsetX == Times(img.scaledProductWidth, Frac(printAreaData.leftPercent, 100))
        offsetY == Times(img.scaledProductHeight, Frac(printAreaData.topPercent, 100))
    IN [left |-> Minus(Plus(img.left, offsetX), Over(printWidth, Num(2))),
        top |-> Minus(Plus(img.top, offsetY), Over(printHeight, Num(2))),
        width |-> printWidth,
        height |-> printHeight,
        widthInches |-> widthInches,
        heightInches |-> heightInches]

\* CanvasManager.setupPrintAreaFullCanvas: printAreaBounds without a product image
SetupPrintAreaFullCanvas(printAreaData) ==
    LET widthInches == IF printAreaData.widthInches # 0 THEN printAreaData.widthInches ELSE 8
        heightInches == IF printAreaData.heightInches # 0
                        THEN printAreaData.heightInches ELSE 10
        aspectRatio == Frac(widthInches, heightInches)
        padding == 20
        maxWidth == Num(CanvasWidth - padding * 2)
        maxHeight == Num(CanvasHeight - padding * 2)
        heightConstrained == Less(aspectRatio, Over(maxWidth, maxHeight))
        printWidth == IF heightConstrained THEN Times(maxHeight, aspectRatio) ELSE maxWidth
        printHeight == IF heightConstrained THEN maxHeight ELSE Over(maxWidth, aspectRatio)
    IN [left |-> Over(Minus(Num(CanvasWidth), printWidth), Num(2)),
        top |-> Over(Minus(Num(CanvasHeight), printHeight), Num(2)),
        width |-> printWidth,
        height |-> printHeight,
        widthInches |-> widthInches,
        heightInches |-> heightInches]

\* CanvasManager.createPrintAreaRect for the print area of view v
CreatePrintAreaRect(cv, rect, v) ==
    (IF rect # None THEN RemoveObj(cv, PrintAreaRectObj(rect)) ELSE cv)
        \o <<PrintAreaRectObj(v), PrintAreaLabelObj(v)>>

\* the forEach of setBackgroundImage: every captured design object is brought to front
RECURSIVE BringAllToFront(_, _)
BringAllToFront(cv, objs) ==
    IF objs = <<>> THEN cv
    ELSE BringAllToFront(Append(RemoveRef(cv, objs[1].ref), objs[1]), Tail(objs))

\* the callback of loadProductImage and the .then of loadProductView: the image
\* goes to the back and the print area of the view the load was started for is set up
ViewLoadDone ==
    \E p \in Loads(pending, "view") :
        /\ productImage' = p.asset
        /\ productElements' =
               CreatePrintAreaRect(<<ProductImageObj(p.asset)>> \o Unref(productElements),
                                   printAreaRect, p.v)
        /\ printAreaRect' = p.v
        /\ printAreaClipPath' = p.v
        /\ LET img == LoadProductImage(imageSize[p.asset])
           IN /\ scaledProduct' = [width |-> img.scaledProductWidth,
                                   height |-> img.scaledProductHeight]
              /\ printAreaBounds' = SetupPrintArea(stages[p.v].printArea, img)
        /\ pending' = Finish(pending, p)
        /\ UNCHANGED <<loaderVars, orderVars, stageVars, designObjects, currentView,
                       imageSize, exports, clipboard, editorRect, savedDesign,
                       historyVars, trace, log>>

\* the callback of loadProductImage when the image could not be loaded (img is
\* null): the promise is rejected, and loadProductView, which has a .then and no
\* .catch, leaves the rejection unhandled; no print area is set up
ViewLoadFailed ==
    \E p \in Loads(pending, "view") :
        /\ pending' = Finish(pending, p)
        /\ log' = [log EXCEPT !.failed = @ \cup {p.v}, !.uncaught = TRUE]
        /\ UNCHANGED <<loaderVars, orderVars, stageVars, productElements, designObjects,
                       fieldVars, historyVars, trace>>

\* the callback of setBackgroundImage
ColorLoadDone ==
    \E p \in Loads(pending, "color") :
        /\ productImage' = p.asset
        /\ pending' = Finish(pending, p)
        /\ LET cv1 == <<ProductImageObj(p.asset)>> \o Unref(productElements)
           IN IF printAreaRect # None
              THEN /\ productElements' = BringToFront(cv1, PrintAreaRectObj(printAreaRect))
                   /\ designObjects' = Release(BringAllToFront(designObjects, p.objs), pending')
              ELSE /\ productElements' = cv1
                   /\ designObjects' = Release(designObjects, pending')
        /\ UNCHANGED <<loaderVars, orderVars, stageVars, printAreaRect,
                       printAreaClipPath, currentView, geometryVars, exports, clipboard, editorRect, savedDesign,
                       historyVars, trace, log>>

\* the enlivenObjects callback of loadStageDesign for a raster object
EnlivenDone ==
    \E p \in Loads(pending, "enliven") :
        /\ designObjects' = designObjects \o ApplyClipPath(Enliven(p.objs))
        /\ pending' = Finish(pending, p)
        /\ UNCHANGED <<loaderVars, orderVars, stageVars, productElements, fieldVars,
                       historyVars, trace, log>>

(***************************************************************************)
(* CanvasManager: the export for print.  An export renders the objects of  *)
(* the canvas one after the other on a canvas of its own; rendering is the *)
(* set of the objects whose rendering has started and not finished, drawn  *)
(* the objects on the output in the order they were drawn, failed the      *)
(* objects whose original image could not be loaded.                       *)
(***************************************************************************)
\* fabricCanvas.getObjects(): the objects of the canvas in z-order.  The product
\* elements are below the decorations when the view had loaded before the first
\* decoration was added, as it has in the states an export is modelled in.
GetObjects == productElements \o designObjects

\* the integer a canvas takes for its width or height: the fraction is cut off
CanvasSize(x) == x.n \div x.d

\* renderObjectHighRes waits for an image to load when the object is an image
\* with _originalSrc, and when the object is an image that is cloned (the
\* product image); it draws texts and shapes at once
IsAsync(o) == o.t = "product" \/ IsRaster(o)
\* the original source of a decoration may fail to load (img.onerror)
CanFail(o) == IsRaster(o) /\ o.src

\* an output canvas sized with the multiplier cut to an integer: the size of C15
\* fails for it
NewExportWholeMultiplier(targetDPI, screenDPI) ==
    [width |-> CanvasWidth * (targetDPI \div screenDPI),
     height |-> CanvasHeight * (targetDPI \div screenDPI),
     objects |-> Serialize(GetObjects),
     rendering |-> {}, drawn |-> <<>>, failed |-> {},
     state |-> "rendering", alerted |-> FALSE]

\* exportForPrint up to its loop: the output canvas and the objects to render
NewExport(targetDPI, screenDPI) ==
    LET multiplier == Frac(targetDPI, screenDPI)
    IN [width |-> CanvasSize(Times(Num(CanvasWidth), multiplier)),
        height |-> CanvasSize(Times(Num(CanvasHeight), multiplier)),
        objects |-> Serialize(GetObjects),
        rendering |-> {}, drawn |-> <<>>, failed |-> {},
        state |-> "rendering", alerted |-> FALSE]

\* the objects of an export whose rendering has started
Started(e) == Range(e.drawn) \cup e.failed \cup e.rendering

\* the indices of S in ascending order
RECURSIVE Ascending(_)
Ascending(S) ==
    IF S = {} THEN <<>>
    ELSE LET m == CHOOSE x \in S : \A y \in S : x <= y
         IN <<m>> \o Ascending(S \ {m})

\* downloadForPrint after exportForPrint, and downloadPrint after it: the image
\* is downloaded; the catch of downloadPrint alerts the user when exportForPrint
\* rejects, which no failed object makes it do
Download(e) == [e EXCEPT !.state = "downloaded", !.alerted = FALSE]

\* a loop that starts the rendering of every object without waiting for the one
\* before: the order of C16 fails for it
RunExportAtOnce(e) ==
    LET rest == (1..Len(e.objects)) \ Started(e)
        rendering == e.rendering \cup {i \in rest : IsAsync(e.objects[i])}
        e1 == [e EXCEPT !.rendering = rendering,
                        !.drawn = @ \o Ascending({i \in rest : ~IsAsync(e.objects[i])})]
    IN IF rendering = {} THEN Download(e1) ELSE e1

\* the loop of exportForPrint as far as it runs without waiting: `await
\* renderObjectHighRes` of one object after the other, in the order of the list
RECURSIVE RunExport(_)
RunExport(e) ==
    LET n == Cardinality(Started(e))
    IN IF e.rendering # {} THEN e
       ELSE IF n = Len(e.objects) THEN Download(e)
       ELSE IF IsAsync(e.objects[n + 1]) THEN [e EXCEPT !.rendering = {n + 1}]
       ELSE RunExport([e EXCEPT !.drawn = Append(@, n + 1)])

\* Designer.downloadPrint: downloadForPrint(filename, 300), exportForPrint(300)
\* with screenDPI = 72
DownloadPrint ==
    /\ exports' = Append(exports, RunExport(NewExport(300, 72)))
    /\ UNCHANGED <<loaderVars, orderVars, stageVars, productElements, designObjects,
                   productImage, printAreaRect, printAreaClipPath, currentView,
                   geometryVars, pending, clipboard, editorRect, savedDesign, historyVars, trace, log>>

\* img.onload of renderObjectHighRes, and the callback of obj.clone: the object
\* is drawn and the loop goes on
ExportImageLoaded ==
    \E k \in DOMAIN exports :
        \E i \in exports[k].rendering :
            /\ exports' = [exports EXCEPT ![k] =
                              RunExport([@ EXCEPT !.rendering = @ \ {i},
                                                  !.drawn = Append(@, i)])]
            /\ UNCHANGED <<loaderVars, orderVars, stageVars, productElements,
                           designObjects, productImage, printAreaRect,
                           printAreaClipPath, currentView, geometryVars, pending,
                           clipboard, editorRect, savedDesign, historyVars, trace, log>>

\* img.onerror of renderObjectHighRes: the failure is logged and the loop goes on
ExportImageFailed ==
    \E k \in DOMAIN exports :
        \E i \in exports[k].rendering :
            /\ CanFail(exports[k].objects[i])
            /\ exports' = [exports EXCEPT ![k] =
                              RunExport([@ EXCEPT !.rendering = @ \ {i},
                                                  !.failed = @ \cup {i}])]
            /\ UNCHANGED <<loaderVars, orderVars, stageVars, productElements,
                           designObjects, productImage, printAreaRect,
                           printAreaClipPath, currentView, geometryVars, pending,
                           clipboard, editorRect, savedDesign, historyVars, trace, log>>

(***************************************************************************)
(* StageManager.                                                           *)
(***************************************************************************)
\* StageManager.saveCurrentStageDesign
SaveCurrentStageDesign(st, cur, objs) ==
    IF cur \in DOMAIN st
    THEN [st EXCEPT ![cur].designState = Serialize(objs), ![cur].hasDesign = TRUE]
    ELSE st

\* this.stages.has(stageId)
HasStage(stageId) == stageId \in DOMAIN stages

\* StageManager.switchStage(stageId): a stage that is not found is logged and
\* nothing else is done
SwitchStageOf(v) ==
    /\ Record("switchStage", v, designObjects, FALSE)
    /\ IF ~HasStage(v)
       THEN UNCHANGED <<loaderVars, orderVars, stageVars, canvasVars, historyVars, log>>
       ELSE
         /\ stages' = IF currentStage # None
                      THEN SaveCurrentStageDesign(stages, currentStage, GetDesignObjects)
                      ELSE stages
         /\ currentStage' = v
         \* loadProductView: clearProductElements, then the image or the full canvas
         /\ currentView' = None
         /\ productImage' = None
         /\ IF stages[v].image # NoImage
            THEN /\ productElements' = <<>>
                 /\ printAreaRect' = None
                 /\ printAreaClipPath' = None
                 /\ printAreaBounds' = NoBounds
                 /\ pending' = Start(pending, ViewLoad(v, stages[v].image))
            ELSE /\ productElements' = CreatePrintAreaRect(<<>>, None, v)
                 /\ printAreaRect' = v
                 /\ printAreaClipPath' = v
                 /\ printAreaBounds' = SetupPrintAreaFullCanvas(stages[v].printArea)
                 /\ pending' = pending
         /\ timers' = Append(timers, v)
         /\ UNCHANGED <<loaderVars, orderVars, designObjects, scaledProduct, imageSize,
                        exports, clipboard, editorRect, savedDesign, historyVars, log>>

\* StageManager.clearAllDesigns: the design state of every stage is given up and
\* the product view of the current stage is loaded again
ClearAllDesigns ==
    /\ Record("clearAllDesigns", "-", designObjects, FALSE)
    /\ stages' = [v \in ViewIds |->
                     [stages[v] EXCEPT !.hasDesign = FALSE, !.designState = <<>>]]
    /\ currentView' = None
    /\ productImage' = None
    /\ IF stages[currentStage].image # NoImage
       THEN /\ productElements' = <<>>
            /\ printAreaRect' = None
            /\ printAreaClipPath' = None
            /\ printAreaBounds' = NoBounds
            /\ pending' = Start(pending, ViewLoad(currentStage, stages[currentStage].image))
       ELSE /\ productElements' = CreatePrintAreaRect(<<>>, None, currentStage)
            /\ printAreaRect' = currentStage
            /\ printAreaClipPath' = currentStage
            /\ printAreaBounds' = SetupPrintAreaFullCanvas(stages[currentStage].printArea)
            /\ pending' = pending
    /\ UNCHANGED <<loaderVars, orderVars, currentStage, timers, designObjects,
                   scaledProduct, imageSize, exports, clipboard, editorRect, savedDesign,
                   historyVars, log>>

\* a click on the tab of a stage
SwitchStage == \E v \in ViewIds : SwitchStageOf(v)

\* a call with an id the product may not have
SwitchStageOfAny == \E v \in ViewIds \cup {UnknownId} : SwitchStageOf(v)

\* localStorage without the item 'cpd_savedDesign'
NoDesign == [saved |-> FALSE,
             stages |-> [v \in ViewIds |-> [hasDesign |-> FALSE, designState |-> <<>>]]]

\* Designer.saveDesign: getStagesData saves the design of the current stage, and
\* the design state of every stage is stored
SaveDesign ==
    /\ stages' = SaveCurrentStageDesign(stages, currentStage, GetDesignObjects)
    /\ savedDesign' = [saved |-> TRUE,
                       stages |-> [v \in ViewIds |->
                                      [hasDesign |-> stages'[v].hasDesign,
                                       designState |-> stages'[v].designState]]]
    /\ Record("saveDesign", "-", designObjects, FALSE)
    /\ UNCHANGED <<loaderVars, orderVars, currentStage, timers, productElements,
                   designObjects, productImage, printAreaRect, printAreaClipPath,
                   currentView, geometryVars, exports, clipboard, editorRect, pending,
                   historyVars, log>>

\* loadStageDesign: an object that is no image is enlivened and added at once,
\* an image when it has loaded
RECURSIVE StartEnliven(_, _)
StartEnliven(pend, objs) ==
    IF objs = <<>> THEN pend
    ELSE StartEnliven(Start(pend, EnlivenLoad(objs[1])), Tail(objs))

\* the timer of switchStage: loadStageDesign of the stage the switch entered
RestoreTimer ==
    /\ timers # <<>>
    /\ ~initSavePending
    /\ LET v == Head(timers)
           ds == IF stages[v].hasDesign THEN stages[v].designState ELSE <<>>
       IN /\ designObjects' =
                 designObjects \o ApplyClipPath(Enliven(SelectSeq(ds, LAMBDA o : ~IsRaster(o))))
          /\ pending' = StartEnliven(pending, SelectSeq(ds, IsRaster))
    /\ timers' = Tail(timers)
    /\ UNCHANGED <<loaderVars, orderVars, stages, currentStage, productElements,
                   fieldVars, historyVars, trace, log>>

\* Designer.loadDesign with a stored design.  loadProduct resets the loader and
\* emits 'product:loaded': loadProductViews makes the stages anew and switches
\* to the first, which saves the design of the stage that was current and
\* starts the load of the view and the timer of the restore.  loadStagesData
\* then gives every stage its stored design state and calls loadStageDesign for
\* the current stage.
LoadDesign ==
    /\ savedDesign.saved
    /\ LET v == Views[1]
           emptied == [w \in ViewIds |->
                          [stages[w] EXCEPT !.image = ViewImages(Colors[1], w),
                                            !.hasDesign = FALSE, !.designState = <<>>]]
           left == SaveCurrentStageDesign(emptied, currentStage, GetDesignObjects)
           loaded == [w \in ViewIds |->
                         [left[w] EXCEPT !.hasDesign = savedDesign.stages[w].hasDesign,
                                         !.designState = savedDesign.stages[w].designState]]
           ds == IF loaded[v].hasDesign THEN loaded[v].designState ELSE <<>>
           clip == IF emptied[v].image # NoImage THEN None ELSE v
           clipped(objs) == [i \in 1..Len(objs) |->
                                IF clip # None THEN [objs[i] EXCEPT !.clip = clip]
                                ELSE objs[i]]
           started == IF emptied[v].image # NoImage
                      THEN Start(pending, ViewLoad(v, emptied[v].image))
                      ELSE pending
       IN /\ stages' = loaded
          /\ currentStage' = v
          /\ currentView' = None
          /\ productImage' = None
          /\ IF emptied[v].image # NoImage
             THEN /\ productElements' = <<>>
                  /\ printAreaRect' = None
                  /\ printAreaClipPath' = None
                  /\ printAreaBounds' = NoBounds
             ELSE /\ productElements' = CreatePrintAreaRect(<<>>, None, v)
                  /\ printAreaRect' = v
                  /\ printAreaClipPath' = v
                  /\ printAreaBounds' = SetupPrintAreaFullCanvas(emptied[v].printArea)
          /\ timers' = Append(timers, v)
          /\ designObjects' =
                 designObjects \o clipped(Enliven(SelectSeq(ds, LAMBDA o : ~IsRaster(o))))
          /\ pending' = StartEnliven(started, SelectSeq(ds, IsRaster))
    /\ currentViewIndex' = 0
    /\ currentColorIndex' = 0
    /\ colorSizeQuantities' = EmptyMap
    /\ selectedVAS' = [foldAndBag |-> FALSE, neckTags |-> FALSE]
    /\ Record("loadDesign", "-", designObjects', FALSE)
    /\ UNCHANGED <<price, upcharge, vas, orderVars, scaledProduct, imageSize, exports,
                   clipboard, editorRect, savedDesign, historyVars, log>>

(***************************************************************************)
(* ProductLoader: colors, quantities and price.                            *)
(***************************************************************************)

\* the product's views and the global pricing rules (ProductLoader.getPricing)
ViewRules == [front |-> [alwaysChargeExtra |-> FALSE, extraPrice |-> 0],
              back |-> [alwaysChargeExtra |-> TRUE, extraPrice |-> 5],
              sleeve |-> [alwaysChargeExtra |-> FALSE, extraPrice |-> 0]]
Pricing == [additionalView |-> 3, foldAndBag |-> 1, neckTags |-> 2]
Services == {"foldAndBag", "neckTags"}

\* the lists of view ids, of the product or not, that calculatePrice is given
DesignedViewIds ==
    UNION {[1..n -> ViewIds \cup {UnknownId}] : n \in 0..MaxDesignedViews}

\* ProductLoader.getCurrentColor
GetCurrentColor == Colors[currentColorIndex + 1]

\* ProductLoader.getCurrentView: the view at currentViewIndex with the image of color c
GetCurrentView(c) ==
    LET v == Views[currentViewIndex + 1]
    IN [id |-> v, image |-> ViewImages(c, v)]

\* ProductLoader.getSizeQuantities
GetSizeQuantities(m, colorId) == IF colorId \in DOMAIN m THEN m[colorId] ELSE EmptyMap

\* a matrix that holds the quantities of one color at a time: the frame of C13
\* fails for it
SetSizeQuantityOneColor(m, colorId, sizeId, quantity) ==
    LET cur == IF colorId \in DOMAIN m THEN m[colorId] ELSE EmptyMap
        inner == IF quantity <= 0 THEN Del(cur, sizeId) ELSE Put(cur, sizeId, quantity)
    IN IF DOMAIN inner = {} THEN EmptyMap ELSE Put(EmptyMap, colorId, inner)

\* a matrix that stores every quantity it is given, 0 included: the absence of
\* C20 fails for it
SetSizeQuantityKeepingZero(m, colorId, sizeId, quantity) ==
    LET m1 == IF colorId \in DOMAIN m THEN m ELSE Put(m, colorId, EmptyMap)
    IN Put(m1, colorId, Put(m1[colorId], sizeId, quantity))

\* ProductLoader.setSizeQuantity
SetSizeQuantity(m, colorId, sizeId, quantity) ==
    LET m1 == IF colorId \in DOMAIN m THEN m ELSE Put(m, colorId, EmptyMap)
    IN IF quantity <= 0
       THEN LET inner == Del(m1[colorId], sizeId)
            IN IF DOMAIN inner = {} THEN Del(m1, colorId) ELSE Put(m1, colorId, inner)
       ELSE Put(m1, colorId, Put(m1[colorId], sizeId, quantity))

\* ProductLoader.getTotalQuantity
GetTotalQuantity(m) ==
    SumOver(DOMAIN m, [c \in DOMAIN m |-> SumOver(DOMAIN m[c], m[c])])

\* ProductLoader.getFullOrderDetails
GetFullOrderDetails(m) ==
    {[colorId |-> cz[1], sizeId |-> cz[2], upcharge |-> upcharge[cz[2]],
      quantity |-> m[cz[1]][cz[2]]] :
        cz \in {x \in ColorIds \X SizeIds :
                  /\ x[1] \in DOMAIN m
                  /\ x[2] \in DOMAIN m[x[1]]
                  /\ m[x[1]][x[2]] > 0}}

\* a base price that leaves the size upcharges out: the sum of C10 fails for it
CalculatePriceBaseFlat(m) ==
    LET orderLines == GetFullOrderDetails(m)
    IN SumOver(orderLines, [l \in orderLines |-> l.quantity * price])

\* ProductLoader.calculatePrice, the base price with quantities and size upcharges
CalculatePriceBase(m) ==
    LET orderLines == GetFullOrderDetails(m)
    IN SumOver(orderLines, [l \in orderLines |-> l.quantity * (price + l.upcharge)])

\* a view pricing in which a view that always charges extra uses up the free
\* slot: the surcharge of C11 fails for it
RECURSIVE ViewPricingOneSlot(_, _)
ViewPricingOneSlot(ids, isFirstView) ==
    IF ids = <<>> THEN 0
    ELSE IF ids[1] \notin ViewIds THEN ViewPricingOneSlot(Tail(ids), isFirstView)
    ELSE IF ViewRules[ids[1]].alwaysChargeExtra
         THEN ViewRules[ids[1]].extraPrice + ViewPricingOneSlot(Tail(ids), FALSE)
    ELSE IF isFirstView THEN ViewPricingOneSlot(Tail(ids), FALSE)
    ELSE Pricing.additionalView + ViewPricingOneSlot(Tail(ids), FALSE)

\* ProductLoader.calculatePrice, the view pricing over designedViewIds
RECURSIVE ViewPricing(_, _)
ViewPricing(ids, isFirstView) ==
    IF ids = <<>> THEN 0
    ELSE IF ids[1] \notin ViewIds THEN ViewPricing(Tail(ids), isFirstView)
    ELSE IF ViewRules[ids[1]].alwaysChargeExtra
         THEN ViewRules[ids[1]].extraPrice + ViewPricing(Tail(ids), isFirstView)
    ELSE IF isFirstView THEN ViewPricing(Tail(ids), FALSE)
    ELSE Pricing.additionalView + ViewPricing(Tail(ids), FALSE)

\* a VAS pricing that charges each service once per order instead of once per
\* item: the totals of C12 fail for it
VasPricingPerOrder(m, sel) ==
    (IF sel.foldAndBag /\ vas.foldAndBag.enabled THEN Pricing.foldAndBag ELSE 0)
    + (IF sel.neckTags /\ vas.neckTags.enabled THEN Pricing.neckTags ELSE 0)

\* ProductLoader.calculatePrice, the VAS pricing
VasPricing(m, sel) ==
    (IF sel.foldAndBag /\ vas.foldAndBag.enabled
     THEN GetTotalQuantity(m) * Pricing.foldAndBag ELSE 0)
    + (IF sel.neckTags /\ vas.neckTags.enabled
       THEN GetTotalQuantity(m) * Pricing.neckTags ELSE 0)

\* ProductLoader.calculatePrice
CalculatePrice(m, sel, designedViewIds) ==
    CalculatePriceBase(m) + ViewPricing(designedViewIds, TRUE) + VasPricing(m, sel)

\* Designer.renderOrderSummary, the per-color/size totals of the subtotal
RenderOrderSummaryBase(m) ==
    LET orderLines == GetFullOrderDetails(m)
        groups == {l.colorId : l \in orderLines}
        items(c) == {l \in orderLines : l.colorId = c}
    IN SumOver(groups,
               [c \in groups |->
                   SumOver(items(c), [l \in items(c) |-> l.quantity * (price + l.upcharge)])])

(***************************************************************************)
(* Designer.                                                               *)
(***************************************************************************)
\* ProductLoader.processView, the print area of the view: what the admin left
\* out gets a default
ProcessPrintArea(printArea) ==
    [widthPercent |-> IF printArea.widthPercent # 0 THEN printArea.widthPercent ELSE 40,
     heightPercent |-> IF printArea.heightPercent # 0 THEN printArea.heightPercent ELSE 50,
     leftPercent |-> printArea.leftPercent,
     topPercent |-> printArea.topPercent,
     widthInches |-> IF printArea.printWidthInches # 0
                     THEN printArea.printWidthInches ELSE 8,
     heightInches |-> IF printArea.printHeightInches # 0
                      THEN printArea.printHeightInches ELSE 10]

\* ProductLoader.processView: the view as the Designer holds it in currentProduct;
\* alwaysChargeExtra and extraPrice of the view are not copied
ProcessView(v, c) == [id |-> v, image |-> ViewImages(c, v)]

\* `this.modules.stages.getDesignedStages?.() || []`: StageManager defines no
\* getDesignedStages
GetDesignedStages == <<>>

\* Designer.calculateViewsPricing, the loop over the designed views
RECURSIVE ViewsPricing(_, _)
ViewsPricing(designedViews, isFirstView) ==
    IF designedViews = <<>> THEN 0
    ELSE IF designedViews[1] \notin ViewIds
         THEN ViewsPricing(Tail(designedViews), isFirstView)
    ELSE LET view == ProcessView(designedViews[1], GetCurrentColor)
         IN IF "alwaysChargeExtra" \in DOMAIN view /\ view.alwaysChargeExtra
            THEN (IF "extraPrice" \in DOMAIN view THEN view.extraPrice ELSE 0)
                 + ViewsPricing(Tail(designedViews), isFirstView)
            ELSE IF isFirstView THEN ViewsPricing(Tail(designedViews), FALSE)
            ELSE Pricing.additionalView + ViewsPricing(Tail(designedViews), FALSE)

\* Designer.calculateViewsPricing
CalculateViewsPricing == ViewsPricing(GetDesignedStages, TRUE)

\* Designer.renderOrderSummary: the view pricing, the VAS lines and the subtotal
RenderOrderSummary(m, sel) ==
    LET orderLines == GetFullOrderDetails(m)
        totalQty == SumOver(orderLines, [l \in orderLines |-> l.quantity])
        viewsPricing == CalculateViewsPricing
        views == IF viewsPricing > 0 THEN viewsPricing ELSE 0
        vasTotal ==
            (IF sel.foldAndBag /\ vas.foldAndBag.enabled /\ totalQty > 0
             THEN totalQty * Pricing.foldAndBag ELSE 0)
            + (IF sel.neckTags /\ vas.neckTags.enabled /\ totalQty > 0
               THEN totalQty * Pricing.neckTags ELSE 0)
    IN [views |-> views, vas |-> vasTotal,
        total |-> RenderOrderSummaryBase(m) + views + vasTotal]

\* no price has been calculated for the order as it stands
NoCart == [valid |-> FALSE, ids |-> <<>>, base |-> 0, views |-> 0, vas |-> 0, price |-> 0]

\* the result of ProductLoader.calculatePrice(designedViewIds), by its parts
PriceOf(m, sel, designedViewIds) ==
    [valid |-> TRUE, ids |-> designedViewIds,
     base |-> CalculatePriceBase(m),
     views |-> ViewPricing(designedViewIds, TRUE),
     vas |-> VasPricing(m, sel),
     price |-> CalculatePrice(m, sel, designedViewIds)]

\* Designer.updateSizeQuantity; renderOrderSizes renders the order summary
UpdateSizeQuantity ==
    \E sizeId \in SizeIds, action \in {"increase", "decrease"} :
        LET quantities == GetSizeQuantities(colorSizeQuantities, GetCurrentColor)
            qty == IF sizeId \in DOMAIN quantities THEN quantities[sizeId] ELSE 0
            newQty == IF action = "increase" THEN qty + 1
                      ELSE IF qty > 0 THEN qty - 1 ELSE qty
        IN /\ newQty <= MaxQty
           /\ colorSizeQuantities' =
                  SetSizeQuantity(colorSizeQuantities, GetCurrentColor, sizeId, newQty)
           /\ summaryBase' = RenderOrderSummaryBase(colorSizeQuantities')
           /\ summary' = RenderOrderSummary(colorSizeQuantities', selectedVAS)
           /\ cart' = NoCart
           /\ UNCHANGED <<currentViewIndex, currentColorIndex, selectedVAS, price, upcharge,
                          vas, orderVasActive,
                          stageVars, canvasVars, historyVars, trace, log>>

\* a findIndex that falls back on the first color when the id is not found: the
\* no-op of C19 fails for it
FindColorIndexOrFirst(colorId) ==
    IF IndexOf(Colors, colorId) = 0 THEN 0 ELSE IndexOf(Colors, colorId) - 1

\* ProductLoader.switchColorById: colors.findIndex(c => c.id === colorId), -1
\* when no color has the id
FindColorIndex(colorId) == IndexOf(Colors, colorId) - 1

\* Designer.switchColor ends with a call of refreshStageImagesForColor, which
\* StageManager does not define: the call throws a TypeError when it is reached,
\* after the stages have kept their images
SwitchColorThrows(colorId) == FindColorIndex(colorId) # -1

\* Designer.switchColor(colorId): switchColorById returns null for an id that no
\* color has, and switchColor returns
SwitchColorOf(colorId) ==
    /\ Record("switchColor", colorId, designObjects, FALSE)
    /\ LET index == FindColorIndex(colorId)
       IN IF index = -1
          THEN UNCHANGED <<loaderVars, orderVars, stageVars, canvasVars, historyVars, log>>
          ELSE
             /\ currentColorIndex' = index
             /\ summaryBase' = RenderOrderSummaryBase(colorSizeQuantities)
             /\ summary' = RenderOrderSummary(colorSizeQuantities, selectedVAS)
             \* setBackgroundImage(view.image, view.printArea)
             /\ LET view == GetCurrentView(Colors[index + 1])
                    captured == Capture(GetDesignObjects, UsedRefs(designObjects, pending))
                IN IF view.image = NoImage
                   THEN UNCHANGED <<productElements, designObjects, productImage, pending>>
                   ELSE /\ productElements' = IF productImage # None
                                              THEN RemoveRef(productElements, 1)
                                              ELSE productElements
                        /\ productImage' = None
                        /\ designObjects' = captured
                        /\ pending' = Start(pending, ColorLoad(view.image, captured))
             /\ UNCHANGED <<currentViewIndex, colorSizeQuantities, selectedVAS, price,
                            upcharge, vas, orderVasActive, cart, stageVars, printAreaRect,
                            printAreaClipPath, currentView, geometryVars, exports, clipboard, editorRect, savedDesign,
                            historyVars, log>>

\* a click on the swatch of a color
SwitchColor == \E colorId \in ColorIds : SwitchColorOf(colorId)

\* a call with an id the product may not have
SwitchColorOfAny == \E colorId \in ColorIds \cup {UnknownId} : SwitchColorOf(colorId)

\* Designer.addToCart: the current stage is saved and the price is calculated over
\* the design objects, none of which is the id of a view
AddToCart ==
    /\ stages' = SaveCurrentStageDesign(stages, currentStage, GetDesignObjects)
    /\ LET ids == [i \in 1..Len(GetDesignObjects) |-> "[object Object]"]
       IN cart' = PriceOf(colorSizeQuantities, selectedVAS, ids)
    /\ UNCHANGED <<loaderVars, summaryBase, summary, orderVasActive, currentStage, timers, canvasVars,
                   historyVars, trace, log>>

\* ProductLoader.getAllSelectedSizes
GetAllSelectedSizes(m) ==
    {z \in SizeIds : \E c \in DOMAIN m : z \in DOMAIN m[c] /\ m[c][z] > 0}

\* Designer.toggleOrderVAS: a click on the item of a service in the Order panel;
\* renderOrderVAS renders an item for the enabled services only, and the item
\* keeps its own `active` class
ToggleOrderVAS ==
    \E vasType \in Services :
        LET isActive == orderVasActive[vasType]
        IN /\ vas[vasType].enabled
           /\ ~(vasType = "neckTags" /\ ~isActive
                 /\ GetTotalQuantity(colorSizeQuantities) = 0)
           /\ selectedVAS' = [selectedVAS EXCEPT ![vasType] = ~isActive]
           /\ orderVasActive' = [orderVasActive EXCEPT ![vasType] = ~isActive]
           /\ summary' = RenderOrderSummary(colorSizeQuantities, selectedVAS')
           /\ cart' = NoCart
           /\ UNCHANGED <<currentViewIndex, currentColorIndex, colorSizeQuantities, price,
                          upcharge, vas, summaryBase, stageVars, canvasVars,
                          historyVars, trace, log>>

\* Designer.toggleVASService: a click on the item of a service in the Services
\* tab; renderVASPanel renders the item from selectedVAS after every change of
\* the quantities and of the Order panel, so its class is selectedVAS[service]
ToggleVASService ==
    \E serviceType \in Services :
        LET isActive == selectedVAS[serviceType]
        IN /\ vas[serviceType].enabled
           /\ ~(serviceType = "neckTags" /\ ~isActive
                 /\ GetAllSelectedSizes(colorSizeQuantities) = {})
           /\ selectedVAS' = [selectedVAS EXCEPT ![serviceType] = ~isActive]
           /\ summary' = RenderOrderSummary(colorSizeQuantities, selectedVAS')
           /\ cart' = NoCart
           /\ UNCHANGED <<currentViewIndex, currentColorIndex, colorSizeQuantities, price,
                          upcharge, vas, summaryBase, orderVasActive, stageVars,
                          canvasVars, historyVars, trace, log>>

\* ProductLoader.calculatePrice(designedViewIds) for a list of view ids
CalculatePriceOfViews ==
    \E designedViewIds \in DesignedViewIds :
        /\ cart' = PriceOf(colorSizeQuantities, selectedVAS, designedViewIds)
        /\ UNCHANGED <<loaderVars, summaryBase, summary, orderVasActive, stageVars,
                       canvasVars, historyVars, trace, log>>

(***************************************************************************)
(* The state after the Designer is constructed with a product: the stages  *)
(* of the product are created with the images of the first color, the      *)
(* first stage is entered and its image is loading.                        *)
(***************************************************************************)
InitOrder ==
    /\ currentViewIndex = 0
    /\ currentColorIndex = 0
    /\ colorSizeQuantities = EmptyMap
    /\ selectedVAS = [foldAndBag |-> FALSE, neckTags |-> FALSE]
    /\ orderVasActive = [s \in Services |-> FALSE]
    /\ summaryBase = 0
    /\ summary = [views |-> 0, vas |-> 0, total |-> 0]
    /\ cart = NoCart

\* the stages of a product whose first view has the print area printArea and
\* whose images have the natural sizes sizes
InitStagesOf(printArea, sizes) ==
    /\ stages = [v \in ViewIds |->
                    [image |-> ViewImages(Colors[1], v),
                     printArea |-> ProcessPrintArea(IF v = Views[1] THEN printArea
                                                    ELSE DefaultPrintArea),
                     hasDesign |-> FALSE,
                     designState |-> <<>>]]
    /\ imageSize = sizes
    /\ currentStage = Views[1]
    /\ designObjects = <<>>
    /\ currentView = None
    /\ isRestoring = FALSE
    /\ trace = <<>>

\* the same, every image having the natural size size
InitStagesWith(printArea, size) == InitStagesOf(printArea, [a \in Assets |-> size])

InitStages == InitStagesWith(DefaultPrintArea, [width |-> 600, height |-> 600])

InitProduct ==
    /\ price = 10
    /\ upcharge = [z \in SizeIds |-> IF z = "L" THEN 2 ELSE 0]
    /\ vas = [s \in Services |-> [enabled |-> TRUE]]

InitCanvas ==
    /\ timers = <<Views[1]>>
    /\ productElements = <<>>
    /\ productImage = None
    /\ printAreaRect = None
    /\ printAreaClipPath = None
    /\ pending = Start(EmptyBag, ViewLoad(Views[1], ViewImages(Colors[1], Views[1])))
    /\ history = <<>>
    /\ historyIndex = -1
    /\ initSavePending = TRUE
    /\ log = [first |-> <<>>, n |-> 0, repeated |-> FALSE, views |-> <<>>,
              failed |-> {}, uncaught |-> FALSE]
    /\ printAreaBounds = NoBounds
    /\ scaledProduct = NoSize
    /\ exports = <<>>
    /\ clipboard = NoObject
    /\ savedDesign = NoDesign
    /\ editorRect = NoRect

Init ==
    /\ InitOrder
    /\ InitStages
    /\ InitProduct
    /\ InitCanvas

\* the same state for products with other print areas and other images
InitGeometry ==
    /\ InitOrder
    /\ \E printArea \in PrintAreas, size \in ImageSizes : InitStagesWith(printArea, size)
    /\ InitProduct
    /\ InitCanvas

\* the state once the image of the first stage has loaded and the two timers of
\* the construction have fired
LoadedCanvas ==
    /\ timers = <<>>
    /\ productElements = <<ProductImageObj(ViewImages(Colors[1], Views[1])),
                           PrintAreaRectObj(Views[1]), PrintAreaLabelObj(Views[1])>>
    /\ productImage = ViewImages(Colors[1], Views[1])
    /\ printAreaRect = Views[1]
    /\ printAreaClipPath = Views[1]
    /\ pending = EmptyBag
    /\ history = <<<<>>>>
    /\ historyIndex = 0
    /\ initSavePending = FALSE
    /\ log = [first |-> <<>>, n |-> 1, repeated |-> FALSE, views |-> <<Views[1]>>,
              failed |-> {}, uncaught |-> FALSE]
    /\ exports = <<>>
    /\ clipboard = NoObject
    /\ savedDesign = NoDesign
    /\ LET img == LoadProductImage(imageSize[ViewImages(Colors[1], Views[1])])
       IN /\ scaledProduct = [width |-> img.scaledProductWidth,
                              height |-> img.scaledProductHeight]
          /\ printAreaBounds = SetupPrintArea(stages[Views[1]].printArea, img)

\* the same, the editor of the print area being without an image
Loaded ==
    /\ LoadedCanvas
    /\ editorRect = NoRect

\* the order panel is used once the product has loaded, with the prices and the
\* size upcharges of the product
InitPrice ==
    /\ InitOrder
    /\ InitStages
    /\ Loaded
    /\ price \in {0, 10}
    /\ upcharge \in {[z \in SizeIds |-> IF z = "L" THEN u ELSE 0] : u \in {0, 2}}
    /\ vas = [s \in Services |-> [enabled |-> TRUE]]

\* the same state for the product of Init
InitLoaded ==
    /\ InitOrder
    /\ InitStages
    /\ Loaded
    /\ InitProduct

\* the same state for products whose second color has images of another size
\* than the first
InitColorSizes ==
    /\ InitOrder
    /\ \E size \in ImageSizes :
           InitStagesOf(DefaultPrintArea,
                        [a \in Assets |->
                            IF a \in {ViewImages(Colors[1], v) : v \in ViewIds}
                            THEN [width |-> 600, height |-> 600] ELSE size])
    /\ Loaded
    /\ InitProduct

\* the same state, the editor of the print area holding an image and a
\* rectangle of some inches that the admin has scaled by a corner
InitAspect ==
    /\ InitOrder
    /\ InitStages
    /\ LoadedCanvas
    /\ InitProduct
    /\ editorRect \in
           {Scaling(AddPrintAreaRect([NoRect EXCEPT !.printWidthInches = w,
                                                    !.printHeightInches = h]),
                    scale, scale, cx, cy) :
               w \in WidthInches, h \in HeightInches, scale \in Scales,
               cx \in {-1, 1}, cy \in {-1, 1}}

\* the same state for products that enable some, all or none of the services
InitVas ==
    /\ InitOrder
    /\ InitStages
    /\ Loaded
    /\ price = 10
    /\ upcharge = [z \in SizeIds |-> IF z = "L" THEN 2 ELSE 0]
    /\ vas \in [Services -> {[enabled |-> TRUE], [enabled |-> FALSE]}]

\* views, colors and decorations
Next ==
    \/ InitialSave
    \/ RestoreTimer
    \/ ViewLoadDone
    \/ EnlivenDone
    \/ ColorLoadDone
    \/ (nOps < MaxOps /\ AddObject)
    \/ (nOps < MaxOps /\ DeleteSelected)
    \/ (nOps < MaxOps /\ SwitchStage)
    \/ (nOps < MaxOps /\ SwitchColor)

Spec == Init /\ [][Next]_vars

\* decorations and their history
NextHistory ==
    \/ InitialSave
    \/ RestoreTimer
    \/ ViewLoadDone
    \/ HistoryLoadDone
    \/ (nOps < MaxEdits /\ AddObject)
    \/ (nOps < MaxEdits /\ DeleteSelected)
    \/ (nOps < MaxEdits /\ BringToFrontSelected)
    \/ (nOps < MaxEdits /\ Undo)
    \/ (nOps < MaxEdits /\ Redo)

SpecHistory == Init /\ [][NextHistory]_vars

\* the order: colors, quantities and price
NextPrice ==
    \/ ColorLoadDone
    \/ (nOps < MaxColorSwitches /\ SwitchColor)
    \/ UpdateSizeQuantity
    \/ AddToCart

SpecPrice == InitPrice /\ [][NextPrice]_vars

\* the order and its value-added services
NextVas ==
    \/ ColorLoadDone
    \/ (nOps < MaxColorSwitches /\ SwitchColor)
    \/ (UpdateSizeQuantity /\ GetTotalQuantity(colorSizeQuantities') <= MaxOrder)
    \/ ToggleOrderVAS
    \/ ToggleVASService
    \/ AddToCart

SpecVas == InitVas /\ [][NextVas]_vars

\* StageManager.getDesignedStagesCount, the stages it counts: the design of the
\* current stage is saved, and a stage counts when its design state is not empty
StagesWithDesign(st, cur, objs) ==
    LET saved == SaveCurrentStageDesign(st, cur, objs)
    IN SelectSeq(Views, LAMBDA v : saved[v].designState # <<>>)

\* an order for a design on several views
NextCart ==
    \/ RestoreTimer
    \/ ViewLoadDone
    \/ EnlivenDone
    \/ (nOps < MaxOps /\ AddObject)
    \/ (nOps < MaxOps /\ SwitchStage)
    \/ (UpdateSizeQuantity /\ GetTotalQuantity(colorSizeQuantities') <= MaxCartItems)
    \/ AddToCart

SpecCart == InitLoaded /\ [][NextCart]_vars

\* the price of a list of designed views
NextViews ==
    \/ (UpdateSizeQuantity /\ GetTotalQuantity(colorSizeQuantities') <= MaxOrder)
    \/ CalculatePriceOfViews

SpecViews == InitLoaded /\ [][NextViews]_vars

\* the print area of the first view of a product
NextGeometry ==
    \/ InitialSave
    \/ RestoreTimer
    \/ ViewLoadDone

SpecGeometry == InitGeometry /\ [][NextGeometry]_vars

\* views and colors switched by id
NextSwitch ==
    \/ RestoreTimer
    \/ ViewLoadDone
    \/ EnlivenDone
    \/ ColorLoadDone
    \/ (nOps < MaxOps /\ AddObject)
    \/ (nOps < MaxOps /\ SwitchStageOfAny)
    \/ (nOps < MaxOps /\ SwitchColorOfAny)

SpecSwitch == InitLoaded /\ [][NextSwitch]_vars

\* views entered while images load, and images that fail to load
NextLoad ==
    \/ InitialSave
    \/ RestoreTimer
    \/ ViewLoadDone
    \/ ViewLoadFailed
    \/ (nOps < MaxOps /\ SwitchStage)

SpecLoad == Init /\ [][NextLoad]_vars

\* colors whose images differ in size
NextColorGeometry ==
    \/ ColorLoadDone
    \/ (nOps < MaxOps /\ SwitchColor)
    \/ (nOps < MaxOps /\ AddObject)

SpecColorGeometry == InitColorSizes /\ [][NextColorGeometry]_vars

\* drags of a decoration
NextDrag ==
    \/ (nOps < MaxOps /\ AddObject)
    \/ (nOps < MaxOps /\ ObjectRotating)
    \/ (nOps < MaxOps /\ ObjectMoving)
    \/ (nOps < MaxOps /\ ObjectScaling)
    \/ (nOps < MaxOps /\ ObjectModified)

SpecDrag == InitLoaded /\ [][NextDrag]_vars

\* the editor of the print area
NextEditor ==
    \/ EditorLoadProductImage
    \/ OnPrintAreaChange
    \/ OnPrintAreaScaling

\* the editor of the print area and its inches
NextAspect ==
    \/ WidthInputChanged
    \/ HeightInputChanged

SpecAspect == InitAspect /\ [][NextAspect]_vars

SpecEditor == InitLoaded /\ [][NextEditor]_vars

\* a design is saved and loaded
NextSaveLoad ==
    \/ RestoreTimer
    \/ ViewLoadDone
    \/ EnlivenDone
    \/ (nOps < MaxOps /\ AddObject)
    \/ (nOps < MaxOps /\ SwitchStage)
    \/ (nOps < MaxOps /\ SaveDesign)
    \/ (nOps < MaxOps /\ LoadDesign)

SpecSaveLoad == InitLoaded /\ [][NextSaveLoad]_vars

\* switches of the view that follow each other before the timers fire
NextRestore ==
    \/ RestoreTimer
    \/ ViewLoadDone
    \/ EnlivenDone
    \/ (nOps < MaxCalls /\ AddObject)
    \/ (nOps < MaxCalls /\ SwitchStage)

SpecRestore == InitLoaded /\ [][NextRestore]_vars

\* the designs are cleared
NextClear ==
    \/ RestoreTimer
    \/ ViewLoadDone
    \/ EnlivenDone
    \/ (nOps < MaxOps /\ AddObject)
    \/ (nOps < MaxOps /\ SwitchStage)
    \/ (nOps < MaxOps /\ ClearAllDesigns)

SpecClear == InitLoaded /\ [][NextClear]_vars

\* the history and its pointer
NextPointer ==
    \/ InitialSave
    \/ HistoryLoadDone
    \/ (nOps < MaxCalls /\ AddObject)
    \/ (nOps < MaxCalls /\ Undo)
    \/ (nOps < MaxCalls /\ Redo)
    \/ (nOps < MaxCalls /\ UndoRefused)
    \/ (nOps < MaxCalls /\ RedoRefused)
    \/ (nOps < MaxCalls /\ Clear)

SpecPointer == Init /\ [][NextPointer]_vars

\* the ways of changing the decorations of the canvas
NextMutate ==
    \/ HistoryLoadDone
    \/ (nOps < MaxOps /\ AddObject)
    \/ (nOps < MaxOps /\ DeleteSelected)
    \/ (nOps < MaxOps /\ DeleteControlMouseUp)
    \/ (nOps < MaxOps /\ HandleLayerDelete)
    \/ (nOps < MaxOps /\ BringToFrontSelected)
    \/ (nOps < MaxOps /\ ObjectMoving)
    \/ (nOps < MaxOps /\ ObjectModified)
    \/ (nOps < MaxOps /\ Undo)

SpecMutate == InitLoaded /\ [][NextMutate]_vars

\* decorations, views and the history
NextViewHistory ==
    \/ RestoreTimer
    \/ ViewLoadDone
    \/ EnlivenDone
    \/ HistoryLoadDone
    \/ (nOps < MaxOps /\ AddObject)
    \/ (nOps < MaxOps /\ SwitchStage)
    \/ (nOps < MaxOps /\ Undo)
    \/ (nOps < MaxOps /\ Redo)

SpecViewHistory == InitLoaded /\ [][NextViewHistory]_vars

\* decorations and their copies
NextClone ==
    \/ (nOps < MaxEdits /\ AddObject)
    \/ (nOps < MaxEdits /\ DuplicateSelected)
    \/ (nOps < MaxEdits /\ Copy)
    \/ (nOps < MaxEdits /\ Paste)
    \/ CloneDone
    \/ (nOps < MaxEdits /\ Undo)
    \/ (nOps < MaxEdits /\ Redo)
    \/ HistoryLoadDone

SpecClone == InitLoaded /\ [][NextClone]_vars

\* the export for print of a canvas with decorations
NextExport ==
    \/ (Len(designObjects) < MaxDecorations /\ AddObject)
    \/ (Len(exports) < MaxExports /\ DownloadPrint)
    \/ ExportImageLoaded
    \/ ExportImageFailed

SpecExport == InitLoaded /\ [][NextExport]_vars

(***************************************************************************)
(* The claims.                                                             *)
(***************************************************************************)
\* the k-th operation of the user counted from the last one
Last(k) == trace[Len(trace) - k]
\* the decorations on the canvas, in z-order, as they serialize
Scene == Serialize(designObjects)
\* the background the canvas shows is the image of asset
Shown(asset) ==
    /\ productImage = asset
    /\ \E i \in DOMAIN productElements : productElements[i] = ProductImageObj(asset)
NoRestore == \A i \in DOMAIN trace : trace[i].op \notin {"undo", "redo"}

\* C1: when the user leaves stage A for stage B with nothing in flight and comes
\* back to A without an edit, then once the deferred restores have run the live
\* decorations are the ones A had when it was left: same objects, same order,
\* none twice.
C1_RoundTripKeepsDecorations ==
    (/\ Len(trace) >= 2
     /\ Last(0).op = "switchStage" /\ Last(1).op = "switchStage"
     /\ Last(1).settled
     /\ Last(1).arg # Last(1).stage
     /\ Last(0).arg = Last(1).stage
     /\ timers = <<>>
     /\ Loads(pending, "enliven") = {})
        => Scene = Last(1).s1

\* C2: a switch of stage never moves a decoration to another stage: the
\* designState of a stage holds only decorations that were added while that
\* stage was the current one.
C2_DesignStateHoldsOwnDecorations ==
    \A v \in ViewIds :
        \A i \in DOMAIN stages[v].designState : stages[v].designState[i].origin = v

\* C3: no step of Designer.switchColor, the call or the callback of the image it
\* loads, changes the designState of a stage or the live decorations and their
\* z-order.
C3_SwitchColorKeepsDecorations ==
    [][(SwitchColor \/ ColorLoadDone)
          => (stages' = stages /\ Serialize(designObjects') = Scene)]_vars

\* C4: after switchColor(c), called with nothing in flight while stage V is the
\* current one, the background shown once the image has loaded is the asset of
\* (V, c), whichever stage V is.
C4_SwitchColorShowsAssetOfActiveView ==
    (/\ Len(trace) >= 1
     /\ Last(0).op = "switchColor"
     /\ Last(0).settled
     /\ pending = EmptyBag)
        => Shown(ViewImages(Last(0).arg, currentStage))

\* C5: after switchColor(c), entering another stage W loads the asset of (W, c).
C5_EnteredViewHasSelectedColor ==
    (/\ Len(trace) >= 2
     /\ Last(1).op = "switchColor" /\ Last(1).settled
     /\ Last(0).op = "switchStage" /\ Last(0).settled
     /\ Last(0).arg # Last(0).stage
     /\ pending = EmptyBag)
        => Shown(ViewImages(Last(1).arg, currentStage))

\* C6: with snapshot S0 at the pointer, an edit that saves S1 followed by undo
\* puts S0 back on the canvas and at the pointer, and a redo after that puts S1
\* back.
C6_UndoRedoRoundTrip ==
    /\ (/\ Len(trace) >= 2
        /\ Last(0).op = "undo"
        /\ Last(1).saved /\ Last(1).settled
        /\ NoHistoryLoad(pending))
           => (Scene = Last(1).s0 /\ Current = Last(1).s0)
    /\ (/\ Len(trace) >= 3
        /\ Last(0).op = "redo" /\ Last(0).settled
        /\ Last(1).op = "undo"
        /\ Last(2).saved /\ Last(2).settled
        /\ NoHistoryLoad(pending))
           => (Scene = Last(2).s1 /\ Current = Last(2).s1)

\* C6, its case: S1 differs from S0, it was saved, undone and redone, and S1 is
\* on the canvas again
C6_Redone ==
    /\ Len(trace) >= 3
    /\ Last(0).op = "redo" /\ Last(0).settled
    /\ Last(1).op = "undo"
    /\ Last(2).saved /\ Last(2).settled
    /\ Last(2).s0 # Last(2).s1
    /\ HasRaster(Last(2).s1)
    /\ NoHistoryLoad(pending)
    /\ Scene = Last(2).s1

C8_SaveOfSameSceneIsNoOp ==
    [][((InitialSave \/ AddObject \/ DeleteSelected \/ BringToFrontSelected)
          /\ historyIndex >= 0
          /\ Serialize(designObjects') = Current)
          => (history' = history /\ historyIndex' = historyIndex)]_vars

\* C9: while a restoration started by undo or redo has not completed, no save
\* changes the history, whatever the interleaving and also when two
\* restorations are in flight.
C9_NoSaveWhileRestoring ==
    [][~NoHistoryLoad(pending) => history' = history]_vars

\* the quantity of (colorId, sizeId) in the matrix, 0 when it has no entry
Quantity(colorId, sizeId) ==
    IF colorId \in DOMAIN colorSizeQuantities /\ sizeId \in DOMAIN colorSizeQuantities[colorId]
    THEN colorSizeQuantities[colorId][sizeId]
    ELSE 0
\* the sum of qty * (price + upcharge(size)) over the entries with qty > 0
BaseOfOrder ==
    LET K == {k \in ColorIds \X SizeIds : Quantity(k[1], k[2]) > 0}
    IN SumOver(K, [k \in K |-> Quantity(k[1], k[2]) * (price + upcharge[k[2]])])

\* C10: the base part of the order total, in the order summary and in the price
\* of the cart, is the sum of qty * (price + upcharge(size)) over the entries of
\* the quantity matrix with qty > 0.
C10_BaseIsSumOverMatrix ==
    /\ summaryBase = BaseOfOrder
    /\ cart.valid => cart.base = BaseOfOrder

\* C10, its case: red M 2, red L 1, blue M 3 at price 10 with upcharge 2 on L
\* give 62
C10_Example ==
    /\ price = 10 /\ upcharge["M"] = 0 /\ upcharge["L"] = 2
    /\ Quantity("red", "M") = 2 /\ Quantity("red", "L") = 1
    /\ Quantity("blue", "M") = 3 /\ Quantity("blue", "L") = 0
    /\ summaryBase = 62
    /\ cart.valid /\ cart.base = 62

\* the surcharge of a list of view ids by the rule: the views that always charge
\* extra add their extraPrice, and of the other views every one but the first
\* adds pricing.additionalView
SurchargeOf(ids) ==
    LET K == {i \in DOMAIN ids : ids[i] \in ViewIds}
        Extra == {i \in K : ViewRules[ids[i]].alwaysChargeExtra}
        Regular == K \ Extra
    IN SumOver(Extra, [i \in Extra |-> ViewRules[ids[i]].extraPrice])
       + (IF Regular = {} THEN 0 ELSE (Cardinality(Regular) - 1) * Pricing.additionalView)

\* C11: the view surcharge that calculatePrice computes over designedViewIds, in
\* their order of appearance, is: the first view that does not always charge
\* extra adds nothing, every later such view adds pricing.additionalView, and
\* every view that always charges extra adds its own extraPrice, whatever its
\* position and without using up the free slot.
C11_ViewSurcharge ==
    cart.valid =>
        /\ cart.views = SurchargeOf(cart.ids)
        /\ cart.price = cart.base + SurchargeOf(cart.ids) + cart.vas

\* C11, its case: a view that always charges 5, then the free view, then a
\* second regular view at 3, on an order of base 32
C11_Example ==
    /\ cart.valid
    /\ cart.ids = <<"back", "front", "sleeve">>
    /\ cart.views = 8
    /\ cart.base = 32
    /\ cart.price = 40

\* the sum of the whole quantity matrix
TotalQuantityAcrossAllColors ==
    LET K == ColorIds \X SizeIds
    IN SumOver(K, [k \in K |-> Quantity(k[1], k[2])])

\* the services that are enabled on the product and selected by the user
ChargedServices == {s \in Services : vas[s].enabled /\ selectedVAS[s]}

VasOfOrder ==
    SumOver(ChargedServices,
            [s \in ChargedServices |-> TotalQuantityAcrossAllColors * Pricing[s]])

\* C12: the total, in the order summary and in the calculated price, includes
\* totalQuantityAcrossAllColors * pricing.<service> for each service (fold & bag,
\* neck tags) that is enabled on the product and selected by the user, and
\* nothing for a service that is not enabled or not selected.
C12_VasPerItemOfWholeOrder ==
    /\ summary.vas = VasOfOrder
    /\ summary.total = summaryBase + summary.views + VasOfOrder
    /\ cart.valid =>
           /\ cart.vas = VasOfOrder
           /\ cart.price = cart.base + cart.views + VasOfOrder

\* C12, its case: fold & bag selected on a product without neck tags, for an
\* order of one red and two blue items
C12_Example ==
    /\ vas.foldAndBag.enabled /\ ~vas.neckTags.enabled
    /\ selectedVAS.foldAndBag
    /\ Quantity("red", "M") = 1 /\ Quantity("blue", "M") = 2
    /\ TotalQuantityAcrossAllColors = 3
    /\ summary.vas = 3 * Pricing.foldAndBag
    /\ cart.valid /\ cart.vas = 3 * Pricing.foldAndBag

\* the entries of the matrix that a step changes
ChangedEntries ==
    {k \in ColorIds \X SizeIds : Quantity(k[1], k[2])' # Quantity(k[1], k[2])}

\* C13: the total quantity used for pricing is the sum of the whole (color, size)
\* matrix and does not depend on the active color: a switch of the active color
\* leaves getTotalQuantity() and every entry of the matrix unchanged, and
\* setSizeQuantity changes only the entry of the color that is active at the
\* time of the call.
C13_TotalIndependentOfActiveColor ==
    [][/\ GetTotalQuantity(colorSizeQuantities') = TotalQuantityAcrossAllColors'
       /\ SwitchColor =>
              /\ colorSizeQuantities' = colorSizeQuantities
              /\ GetTotalQuantity(colorSizeQuantities')
                     = GetTotalQuantity(colorSizeQuantities)
       /\ UpdateSizeQuantity =>
              /\ Cardinality(ChangedEntries) <= 1
              /\ \A k \in ChangedEntries : k[1] = GetCurrentColor]_vars

\* C13, its case: quantities were entered for red, the active color was switched
\* to blue and a quantity was entered for blue
C13_EnteredForTwoColors ==
    /\ Len(trace) >= 1 /\ Last(0).op = "switchColor" /\ Last(0).arg = "blue"
    /\ GetCurrentColor = "blue"
    /\ Quantity("red", "M") = 2 /\ Quantity("blue", "L") = 1
    /\ GetTotalQuantity(colorSizeQuantities) = 3

\* the size at which the background is rendered: the natural size of the image
\* scaled by min(600 / width, 600 / height) * 0.95
RenderedBg ==
    LET size == imageSize[productImage]
        fit == IF size.width * CanvasHeight >= size.height * CanvasWidth
               THEN Frac(CanvasWidth, size.width) ELSE Frac(CanvasHeight, size.height)
    IN [width |-> Frac(size.width * fit.n * 95, fit.d * 100),
        height |-> Frac(size.height * fit.n * 95, fit.d * 100)]
\* the print-area spec of the view whose print area is set up
SpecOfPrintArea == stages[printAreaRect].printArea
\* the bounding box of the print area: the percents of the rendered background
MaxBox ==
    [width |-> Frac(RenderedBg.width.n * SpecOfPrintArea.widthPercent,
                    RenderedBg.width.d * 100),
     height |-> Frac(RenderedBg.height.n * SpecOfPrintArea.heightPercent,
                     RenderedBg.height.d * 100)]
\* a <= b and a = b for fractions
AtMost(a, b) == a.n * b.d <= b.n * a.d
Same(a, b) == a.n * b.d = b.n * a.d

\* C14: for a print-area spec with widthInches = w, heightInches = h and the
\* bounding box (maxW, maxH) = (renderedBgWidth * widthPercent / 100,
\* renderedBgHeight * heightPercent / 100), the resolved rectangle has
\* resolvedW / resolvedH = w / h, resolvedW <= maxW and resolvedH <= maxH with
\* equality on at least one axis, and its centre is the centre of the background
\* plus (leftPercent / 100 * renderedBgWidth, topPercent / 100 * renderedBgHeight).
C14_PrintAreaGeometry ==
    (printAreaBounds # NoBounds /\ productImage # None) =>
        LET b == printAreaBounds
            pa == SpecOfPrintArea
        IN /\ b.width.n * b.height.d * pa.heightInches
                 = b.height.n * b.width.d * pa.widthInches
           /\ AtMost(b.width, MaxBox.width)
           /\ AtMost(b.height, MaxBox.height)
           /\ Same(b.width, MaxBox.width) \/ Same(b.height, MaxBox.height)
           /\ (2 * b.left.n * b.width.d + b.width.n * b.left.d) * 100 * RenderedBg.width.d
                 = (CanvasWidth * 100 * RenderedBg.width.d
                      + 2 * pa.leftPercent * RenderedBg.width.n)
                   * b.left.d * b.width.d
           /\ (2 * b.top.n * b.height.d + b.height.n * b.top.d) * 100 * RenderedBg.height.d
                 = (CanvasHeight * 100 * RenderedBg.height.d
                      + 2 * pa.topPercent * RenderedBg.height.n)
                   * b.top.d * b.height.d

\* C14, its case: a print area of 3 x 1 inches in a box of 100% x 50% of a
\* 300 x 600 image, off centre: the width of the box is reached, not the height
C14_WidthConstrained ==
    /\ printAreaBounds # NoBounds /\ productImage # None
    /\ imageSize[productImage] = [width |-> 300, height |-> 600]
    /\ SpecOfPrintArea.widthInches = 3 /\ SpecOfPrintArea.heightInches = 1
    /\ SpecOfPrintArea.widthPercent = 100 /\ SpecOfPrintArea.heightPercent = 50
    /\ SpecOfPrintArea.leftPercent = 10 /\ SpecOfPrintArea.topPercent = -10
    /\ printAreaBounds.width = Num(285) /\ printAreaBounds.height = Num(95)
    /\ Same(printAreaBounds.width, MaxBox.width)
    /\ ~Same(printAreaBounds.height, MaxBox.height)


(***************************************************************************)
(* C15.  Every export allocates an output surface of the base size times   *)
(* targetDPI / baseDPI: at 300 DPI over 72 DPI on the 600 x 600 canvas the *)
(* surface is 2500 x 2500 px.                                              *)
(***************************************************************************)
C15_ExportSurfaceSize ==
    \A k \in DOMAIN exports :
        /\ Num(exports[k].width) = Times(Num(CanvasWidth), Frac(300, 72))
        /\ Num(exports[k].height) = Times(Num(CanvasHeight), Frac(300, 72))
        /\ exports[k].width = 2500
        /\ exports[k].height = 2500

\* an export of a canvas with a decoration has been downloaded
C15_Exported ==
    \E k \in DOMAIN exports :
        /\ exports[k].state = "downloaded"
        /\ Len(exports[k].objects) > Len(productElements)

(***************************************************************************)
(* C16.  Within one export the objects are rendered in ascending z-order,  *)
(* one at a time: at most one object is being rendered, every object below *)
(* it has finished and no object above it has started, and the objects     *)
(* were drawn on the output in ascending order.                            *)
(***************************************************************************)
C16_SequentialRendering ==
    \A k \in DOMAIN exports :
        LET e == exports[k]
        IN /\ Cardinality(e.rendering) <= 1
           /\ \A i \in e.rendering :
                  Started(e) \ {i} = 1..(i - 1)
           /\ \E n \in 0..Len(e.objects) : Started(e) = 1..n
           /\ \A a, b \in DOMAIN e.drawn : a < b => e.drawn[a] < e.drawn[b]
           /\ e.state = "downloaded" =>
                  /\ e.rendering = {}
                  /\ Started(e) = DOMAIN e.objects

\* the topmost of two raster decorations is being reloaded after the reload of
\* the one below it has finished
C16_SecondImageAfterFirst ==
    \E k \in DOMAIN exports :
        LET e == exports[k]
        IN \E i \in e.rendering :
               /\ i > 1
               /\ IsRaster(e.objects[i])
               /\ IsRaster(e.objects[i - 1])
               /\ (i - 1) \in Range(e.drawn)

(***************************************************************************)
(* C17.  An export that completes has surfaced an error to the user        *)
(* exactly when the reload of one or more of its objects failed.           *)
(***************************************************************************)
C17_ErrorSurfacedOnFailure ==
    \A k \in DOMAIN exports :
        exports[k].state = "downloaded" =>
            (exports[k].alerted <=> exports[k].failed # {})

(***************************************************************************)
(* C18.  Two exports are never in progress at the same time.               *)
(***************************************************************************)
C18_OneExportAtATime ==
    Cardinality({k \in DOMAIN exports : exports[k].state = "rendering"}) <= 1


(***************************************************************************)
(* C19.  A request to switch to a view id or a color id the product does   *)
(* not have is a no-op: the active view, the active color, every stored    *)
(* session, the canvas and all the rest of the state are unchanged, and    *)
(* the request reaches no statement that throws.                           *)
(***************************************************************************)
C19_UnknownIdIsNoOp ==
    [][(/\ Len(trace') = Len(trace) + 1
        /\ trace'[Len(trace')].op \in {"switchStage", "switchColor"}
        /\ trace'[Len(trace')].arg = UnknownId)
       => /\ UNCHANGED <<loaderVars, orderVars, stageVars, canvasVars, historyVars, log>>
          /\ ~SwitchColorThrows(UnknownId)
          /\ ~HasStage(UnknownId)]_vars

\* an unknown color was requested after an unknown view, on a view other than
\* the first, the session of the first stored
C19_UnknownRequested ==
    /\ Len(trace) >= 3
    /\ Last(0).arg = UnknownId /\ Last(0).op = "switchColor"
    /\ Last(1).arg = UnknownId /\ Last(1).op = "switchStage"
    /\ currentStage # Views[1]
    /\ stages[Views[1]].hasDesign


(***************************************************************************)
(* C20.  The quantity matrix holds no entry whose value is 0 or less and   *)
(* no color with an empty size map: an entry set to 0 is removed, and the  *)
(* matrix is empty exactly when the total quantity is 0.                   *)
(***************************************************************************)
C20_ZeroEntriesAreAbsent ==
    /\ \A c \in DOMAIN colorSizeQuantities :
           /\ DOMAIN colorSizeQuantities[c] # {}
           /\ \A z \in DOMAIN colorSizeQuantities[c] : colorSizeQuantities[c][z] > 0
    /\ (DOMAIN colorSizeQuantities = {}) <=> (GetTotalQuantity(colorSizeQuantities) = 0)

\* the second color is active and has no entry, the first color has one size left
C20_ActiveColorAbsent ==
    /\ GetCurrentColor = Colors[2]
    /\ DOMAIN colorSizeQuantities = {Colors[1]}
    /\ DOMAIN colorSizeQuantities[Colors[1]] = {Sizes[2]}
    /\ GetTotalQuantity(colorSizeQuantities) = MaxQty


(***************************************************************************)
(* C21.  Once a scene has been reconstructed (a view was entered and its   *)
(* decorations restored, or a snapshot was restored by undo or redo) and   *)
(* nothing is in flight, every decoration on the canvas has the clip path  *)
(* of the print area of the active view.                                   *)
(***************************************************************************)
C21_ClipOfActiveView ==
    (/\ Settled
     /\ Len(trace) >= 1
     /\ Last(0).op \in {"switchStage", "undo", "redo"})
    => \A i \in DOMAIN designObjects : designObjects[i].clip = currentStage


(***************************************************************************)
(* C22.  Every raster decoration on the canvas carries the reference to    *)
(* its original source and its native dimensions, whatever was done to it: *)
(* duplicate, copy and paste, undo and redo.                               *)
(***************************************************************************)
C22_RasterKeepsOriginalSource ==
    \A i \in DOMAIN designObjects :
        IsRaster(designObjects[i]) => designObjects[i].src


(***************************************************************************)
(* C23.  Once every load has settled and none has failed, the canvas holds *)
(* exactly one product image and one print area, and they are those of the *)
(* active view, also when a view was left while its image was loading.     *)
(***************************************************************************)
C23_OneBackgroundOfActiveView ==
    (Settled /\ log.failed = {})
    => /\ Cardinality({i \in DOMAIN productElements : productElements[i].t = "product"}) = 1
       /\ Cardinality({i \in DOMAIN productElements : productElements[i].t = "rect"}) = 1
       /\ \A i \in DOMAIN productElements :
              /\ productElements[i].t = "product"
                     => productElements[i].c = stages[currentStage].image
              /\ productElements[i].t \in {"rect", "label"}
                     => productElements[i].c = currentStage
       /\ productImage = stages[currentStage].image
       /\ printAreaRect = currentStage
       /\ printAreaClipPath = currentStage

(***************************************************************************)
(* C24.  When the image of the entered view has failed to load and nothing *)
(* is in flight any more, no error was left uncaught and the canvas has    *)
(* the print area and the clip path of the view.                           *)
(***************************************************************************)
C24_FailedLoadDegradesToPlaceholder ==
    (Settled /\ currentStage \in log.failed)
    => /\ ~log.uncaught
       /\ printAreaBounds # NoBounds
       /\ printAreaRect = currentStage
       /\ printAreaClipPath = currentStage


(***************************************************************************)
(* C25.  The snapshot an undo or a redo restores was saved while the view  *)
(* that is active at the undo or redo was active.                          *)
(***************************************************************************)
C25_SnapshotOfActiveView ==
    (Len(trace) >= 1 /\ Last(0).op \in {"undo", "redo"})
    => log.views[historyIndex + 1] = Last(0).stage


(***************************************************************************)
(* C26.  Once a color switch has installed its image and nothing is in     *)
(* flight, the bounds of the print area are those resolved from the        *)
(* rendered size of the image that is now the background.                  *)
(***************************************************************************)
C26_BoundsOfNewBackground ==
    (/\ Settled
     /\ productImage # None
     /\ \E i \in DOMAIN trace : trace[i].op = "switchColor")
    => /\ printAreaBounds =
              SetupPrintArea(stages[currentStage].printArea,
                             LoadProductImage(imageSize[productImage]))
       /\ scaledProduct =
              [width |-> LoadProductImage(imageSize[productImage]).scaledProductWidth,
               height |-> LoadProductImage(imageSize[productImage]).scaledProductHeight]


(***************************************************************************)
(* C27.  A frame of a rotation that turns the object to an angle less than *)
(* 5 degrees from a multiple of 45 degrees (0, 45, ..., 360) leaves the    *)
(* object at that multiple; any other angle is left as it is.              *)
(***************************************************************************)
C27_RotationSnaps ==
    (Len(trace) >= 1 /\ Last(0).op = "rotating")
    => LET angle == Last(0).arg.to
           now == designObjects[Last(0).arg.i].angle
       IN /\ \A k \in 0..8 : Abs(angle - 45 * k) < 5 => now = 45 * k
          /\ (\A k \in 0..8 : Abs(angle - 45 * k) >= 5) => now = angle

\* a frame has turned an object to 4 degrees before 135 degrees, and it is at 135
C27_SnappedTo135 ==
    /\ Len(trace) >= 1
    /\ Last(0).op = "rotating"
    /\ Last(0).arg.to = 131
    /\ designObjects[Last(0).arg.i].angle = 135


(***************************************************************************)
(* C28.  A frame of a move, a scale or a rotation leaves the history list  *)
(* and its pointer as they were; the committed modification makes one save *)
(* attempt: the scene it commits is the snapshot at the pointer afterwards,*)
(* and the history has at most one snapshot more than before.              *)
(***************************************************************************)
C28_SnapshotOnCommitOnly ==
    [][Len(trace') = Len(trace) + 1
       => LET e == trace'[Len(trace')]
          IN /\ e.op \in {"moving", "scaling", "rotating"}
                   => UNCHANGED <<history, historyIndex>>
             /\ e.op = "modified"
                   => /\ historyIndex' >= 0
                      /\ history'[historyIndex' + 1] = CanvasToJSON(designObjects)
                      /\ historyIndex' = Len(history') - 1
                      /\ historyIndex' \in {historyIndex, historyIndex + 1}
                      /\ Len(history') <= Len(history) + 1
                      /\ (history[historyIndex + 1] # CanvasToJSON(designObjects)
                             => /\ historyIndex' = Min(historyIndex + 1, MaxHistory - 1)
                                /\ Len(history') = historyIndex' + 1)]_vars

\* a decoration was moved and rotated and the drag committed: the two frames
\* left the history alone and the commit added the one snapshot after the
\* snapshot of the add
C28_CommittedAfterFrames ==
    /\ Len(trace) = 3
    /\ Last(1).op = "rotating"
    /\ Last(0).op = "modified"
    /\ Last(1).s1 # Last(1).s0
    /\ Len(history) = 3
    /\ historyIndex = 2
    /\ history[3] = CanvasToJSON(designObjects)
    /\ history[2] = Last(1).s0


(***************************************************************************)
(* C29.  An operation that changes the decorations of the canvas (an add,  *)
(* a removal with the keyboard, with the delete control of the object or   *)
(* in the layer panel, a change of the z-order) while nothing is being     *)
(* restored makes the history take a snapshot: the scene it leaves is the  *)
(* snapshot at the pointer.                                                *)
(***************************************************************************)
C29_MutationIsSaved ==
    [][(/\ Len(trace') = Len(trace) + 1
        /\ trace'[Len(trace')].op \in {"add", "delete", "deleteControl", "layerDelete",
                                       "bringToFront"}
        /\ ~isRestoring
        /\ designObjects' # designObjects)
       => /\ historyIndex' >= 0
          /\ history'[historyIndex' + 1] = CanvasToJSON(designObjects')]_vars


(***************************************************************************)
(* C30.  After every move and every scaling of the rectangle of the print  *)
(* area in the editor, the rectangle lies within the rendered image: its   *)
(* left, top, right and bottom edges are inside the image.                 *)
(***************************************************************************)
C30_RectWithinImage ==
    HasRect(editorRect)
    => LET imgLeft == Minus(EditorImageLeft, Over(ScaledProductWidth, Num(2)))
           imgTop == Minus(EditorImageTop, Over(ScaledProductHeight, Num(2)))
           halfWidth == Over(Times(editorRect.width, Num(editorRect.scaleX)), Num(2))
           halfHeight == Over(Times(editorRect.height, Num(editorRect.scaleY)), Num(2))
       IN /\ ~Less(Minus(editorRect.left, halfWidth), imgLeft)
          /\ ~Less(Minus(editorRect.top, halfHeight), imgTop)
          /\ ~Less(Plus(imgLeft, ScaledProductWidth), Plus(editorRect.left, halfWidth))
          /\ ~Less(Plus(imgTop, ScaledProductHeight), Plus(editorRect.top, halfHeight))


(***************************************************************************)
(* C31.  A change of the inches of an existing rectangle leaves a          *)
(* rectangle of scale 1 whose width over its height is the new ratio       *)
(* r = widthInches / heightInches, whose width and height do not exceed    *)
(* the box of the update (90% of the rendered image), and whose area is    *)
(* the area before the change whenever the rectangle of that area and      *)
(* ratio fits in the box.                                                  *)
(***************************************************************************)
C31_AspectRatioUpdate ==
    [][(/\ HasRect(editorRect)
        /\ <<editorRect'.printWidthInches, editorRect'.printHeightInches>>
               # <<editorRect.printWidthInches, editorRect.printHeightInches>>)
       => LET r == Frac(editorRect'.printWidthInches, editorRect'.printHeightInches)
              area == Times(Times(editorRect.width, Num(editorRect.scaleX)),
                            Times(editorRect.height, Num(editorRect.scaleY)))
              boxWidth == Times(ScaledProductWidth, Frac(9, 10))
              boxHeight == Times(ScaledProductHeight, Frac(9, 10))
              fits == /\ ~Less(Times(boxWidth, boxWidth), Times(area, r))
                      /\ ~Less(Times(boxHeight, boxHeight), Over(area, r))
          IN /\ editorRect'.scaleX = 1 /\ editorRect'.scaleY = 1
             /\ editorRect'.width = Times(editorRect'.height, r)
             /\ ~Less(boxWidth, editorRect'.width)
             /\ ~Less(boxHeight, editorRect'.height)
             /\ fits => Times(editorRect'.width, editorRect'.height) = area]_vars

\* the rectangle of 8 x 10 inches that an update has cut to the height of the box
\* after cutting it to its width
C31_ClampedTwice ==
    /\ editorRect.printWidthInches = 8
    /\ editorRect.printHeightInches = 10
    /\ editorRect.scaleX = 1
    /\ editorRect.width = Num(180)
    /\ editorRect.height = Num(225)


(***************************************************************************)
(* C32.  When a design was saved and then loaded and every load and timer  *)
(* of the loading has finished, the canvas holds the decorations saved for *)
(* the active view, each once, and every stage stores the design state     *)
(* that was saved for it.                                                  *)
(***************************************************************************)
C32_SaveLoadRoundTrip ==
    (/\ Len(trace) >= 2
     /\ Last(1).op = "saveDesign"
     /\ Last(0).op = "loadDesign"
     /\ Settled)
    => /\ \A c \in Contents :
              Cardinality({i \in DOMAIN designObjects : designObjects[i].c = c})
                  = Cardinality({i \in DOMAIN savedDesign.stages[currentStage].designState :
                                   savedDesign.stages[currentStage].designState[i].c = c})
       /\ \A v \in ViewIds : stages[v].designState = savedDesign.stages[v].designState


(***************************************************************************)
(* C33.  The timer of a switch of the view restores the design of its view *)
(* only when that view is still the current one: a timer that fires for a  *)
(* view the user has left adds nothing to the canvas and starts no load.   *)
(***************************************************************************)
C33_StaleTimerDoesNothing ==
    [][(/\ timers # <<>>
        /\ timers' = Tail(timers)
        /\ Head(timers) # currentStage)
       => /\ designObjects' = designObjects
          /\ pending' = pending]_vars


(***************************************************************************)
(* C34.  After clearAllDesigns, and for as long as the user only switches  *)
(* views afterwards, the canvas holds no decoration and the design state   *)
(* of every stage is empty.                                                *)
(***************************************************************************)
C34_ClearedStaysEmpty ==
    \A k \in 1..Len(trace) :
        (/\ trace[k].op = "clearAllDesigns"
         /\ \A j \in (k + 1)..Len(trace) : trace[j].op = "switchStage")
        => /\ designObjects = <<>>
           /\ \A v \in ViewIds : stages[v].designState = <<>>


(***************************************************************************)
(* C35.  The pointer of the history is -1 exactly when the history is      *)
(* empty and otherwise lies between 0 and the length of the history minus  *)
(* 1; an undo at pointer 0 and a redo at the last snapshot change neither  *)
(* the history nor the pointer nor the canvas, and start no restoration.   *)
(***************************************************************************)
C35_PointerInRange ==
    /\ [](/\ (historyIndex = -1) <=> (history = <<>>)
          /\ history # <<>> => (0 <= historyIndex /\ historyIndex <= Len(history) - 1))
    /\ [][(/\ Len(trace') = Len(trace) + 1
           /\ \/ trace'[Len(trace')].op = "undo" /\ historyIndex <= 0
              \/ trace'[Len(trace')].op = "redo" /\ historyIndex = Len(history) - 1)
          => UNCHANGED <<history, historyIndex, isRestoring, designObjects,
                         productElements, pending>>]_vars

\* an add was undone, and the next undo, at pointer 0 with two snapshots in the
\* history, was refused
C35_UndoAtStart ==
    /\ Len(trace) = 3
    /\ Last(1).op = "undo" /\ Last(1).arg # "refused"
    /\ Last(0).op = "undo" /\ Last(0).arg = "refused"
    /\ historyIndex = 0
    /\ Len(history) = 2


(***************************************************************************)
(* C36.  When the last call of the user was an undo or a redo and every    *)
(* restoration has completed, the scene on the canvas is the snapshot at   *)
(* the pointer, also when a call was made before the restoration of an     *)
(* earlier one had completed.                                              *)
(***************************************************************************)
C36_SceneIsSnapshotAtPointer ==
    (/\ Len(trace) >= 1
     /\ Last(0).op \in {"undo", "redo"}
     /\ NoHistoryLoad(pending)
     /\ ~isRestoring)
    => Scene = Current


(***************************************************************************)
(* C37.  A restoration changes decorations only: the step that completes   *)
(* the restoration of an undo or a redo leaves the product image and the   *)
(* markers of the print area on the canvas, and the bounds of the print    *)
(* area as they were.                                                      *)
(***************************************************************************)
C37_RestoreKeepsProductElements ==
    [][(\/ HistoryLoads(pending') < HistoryLoads(pending)
        \/ /\ Len(trace') = Len(trace) + 1
           /\ trace'[Len(trace')].op \in {"undo", "redo"}
           /\ historyIndex' # historyIndex
           /\ NoHistoryLoad(pending'))
       => /\ productElements' = productElements
          /\ printAreaBounds' = printAreaBounds]_vars


(***************************************************************************)
(* C38.  With no load and no restoration in flight, the view surcharge of  *)
(* the order summary, when the summary is rendered, and the view surcharge *)
(* in the price of addToCart are the view pricing of the ids of the views  *)
(* that hold a decoration.                                                 *)
(***************************************************************************)
C38_SurchargeOfDesignedViews ==
    [][(timers' = <<>> /\ pending' = EmptyBag) =>
       LET designed == StagesWithDesign(stages', currentStage', designObjects')
       IN /\ (cart' # cart /\ cart'.valid) => cart'.views = ViewPricing(designed, TRUE)
          /\ summary' # summary => summary'.views = ViewPricing(designed, TRUE)]_vars


(***************************************************************************)
(* C39.  The neck tags are selected only while the order has a quantity:   *)
(* selectedVAS.neckTags implies that the total quantity over all colors is *)
(* greater than 0.                                                         *)
(***************************************************************************)
C39_NeckTagsNeedQuantity ==
    selectedVAS.neckTags => GetTotalQuantity(colorSizeQuantities) > 0

====
